---------------------------- MODULE Spec2Model ----------------------------
(***************************************************************************)
(* Talk-genius: the real-time feedback session registry                    *)
(* (services/realtime_feedback.py), the Flask handlers that drive it       *)
(* (app.py) and the scoring engine (services/scoring_engine.py).           *)
(*                                                                         *)
(* Conventions.                                                            *)
(*  - A JSON / Python value whose shape matters is a tagged record:        *)
(*    [t |-> "num", v |-> n], [t |-> "str"], [t |-> "none"],               *)
(*    [t |-> "list"], [t |-> "absent"] (key not present) and               *)
(*    [t |-> "dict", ...].                                                 *)
(*  - A posture / eye-contact score received from the client is a number   *)
(*    in TENTHS of a point (855 is 85.5), so that int() and the            *)
(*    comparisons with 0 act on non-integral scores as Python does.        *)
(*    Scores produced by int(...) are whole points.                        *)
(*  - time.time() is the integer variable now (seconds); one handler       *)
(*    reads one clock value.                                               *)
(*  - A Python call that may raise returns a record with a field exc:      *)
(*    "" when it returned, otherwise the exception's name.                 *)
(***************************************************************************)
EXTENDS Integers, Sequences, FiniteSets, TLC

VARIABLES
    active_sessions,   \* RealtimeFeedback.active_sessions: id -> session state
    feedback_history,  \* RealtimeFeedback.feedback_history: id -> list of feedback
    now,               \* the wall clock read by time.time()
    last,              \* the last call made and what it returned
    nframes,           \* analyze_frame calls made so far (bounds the run)
    received,          \* per id: the positive scores received since its start
    solo,              \* per id: the registry as driven by that id's calls alone
    args               \* the arguments calculate_overall_score is called with

vars == <<active_sessions, feedback_history, now, last, nframes, received, solo,
          args>>

---------------------------------------------------------------------------
(* Bounds of the model *)

MaxFrames == 2

MaxTime == 1

\* the session id of the single-session runs, and those of the two-session runs
Ids == {"s1"}

AllIds == {"s1", "s2"}

---------------------------------------------------------------------------
(* Python values *)

Absent == [t |-> "absent"]

PyNone == [t |-> "none"]

PyStr == [t |-> "str"]

PyList == [t |-> "list"]

Num(n) == [t |-> "num", v |-> n]

Some(x) == [t |-> "float", v |-> x]

EmptyDict == [k \in {} |-> 0]

DictGet(d, k, default) == IF k \in DOMAIN d THEN d[k] ELSE default

DictSet(d, k, x) == [j \in DOMAIN d \cup {k} |-> IF j = k THEN x ELSE d[j]]

\* del d[k]: KeyError when k is no key of d
DictDel(d, k) ==
    IF k \in DOMAIN d
    THEN [exc |-> "", val |-> [j \in DOMAIN d \ {k} |-> d[j]]]
    ELSE [exc |-> "KeyError", val |-> d]

Max(a, b) == IF a >= b THEN a ELSE b

Min(a, b) == IF a <= b THEN a ELSE b

Abs(a) == IF a >= 0 THEN a ELSE -a

\* int(x) of a score in tenths: truncation towards zero, in whole points
IntPart(r) == IF r >= 0 THEN r \div 10 ELSE -((-r) \div 10)

\* round(n / d) for n >= 0, d > 0: Python 3 rounds halves to the even integer
PyRound(n, d) ==
    LET q == n \div d
        r2 == 2 * (n % d)
    IN  IF r2 < d THEN q
        ELSE IF r2 > d THEN q + 1
        ELSE IF q % 2 = 0 THEN q ELSE q + 1

RECURSIVE Gcd(_, _)
Gcd(a, b) == IF b = 0 THEN a ELSE Gcd(b, a % b)

\* a non-negative float n / d, kept as a reduced fraction
Frac(n, d) ==
    LET g == Gcd(n, d) IN [n |-> n \div g, d |-> d \div g]

\* collections.deque(maxlen=m).append(x)
DequeAppend(q, x, m) ==
    IF Len(q) >= m THEN Append(Tail(q), x) ELSE Append(q, x)

RECURSIVE SeqSum(_)
SeqSum(s) == IF s = <<>> THEN 0 ELSE Head(s) + SeqSum(Tail(s))

---------------------------------------------------------------------------
(* RealtimeFeedback.__init__ *)

posture_thresholds == [good |-> 80, okay |-> 60, poor |-> 0]

eye_contact_thresholds == [good |-> 75, moderate |-> 50, poor |-> 0]

filler_word_thresholds == [low |-> 2, medium |-> 5, high |-> 10]

pace_thresholds == [too_slow |-> 120, ideal_min |-> 140, ideal_max |-> 160,
                    too_fast |-> 180]

\* deque(maxlen=...) of start_session
PostureScoresMaxLen == 300

EyeContactScoresMaxLen == 300

FillerWordsMaxLen == 600

FeedbackMessagesMaxLen == 10

\* the trailing window of _analyze_speech's filler rate, in seconds
FillerWindow == 60

\* _calculate_trend looks at the last 10 values
TrendWindow == 10

NewSession(t) ==
    [start_time |-> t,
     posture_scores |-> <<>>,
     eye_contact_scores |-> <<>>,
     filler_words |-> <<>>,
     speech_data |-> [word_count |-> 0, last_word_time |-> PyNone,
                      current_pace |-> Frac(0, 1)],
     feedback_messages |-> <<>>,
     metrics_history |-> [posture |-> <<>>, eye_contact |-> <<>>,
                          pace |-> <<>>, filler_rate |-> <<>>]]

\* The registry: the two dictionaries of the RealtimeFeedback object
Registry(as, fh) == [active_sessions |-> as, feedback_history |-> fh]

\* start_session as it would be if it rebuilt both registries
StartSessionAlone(reg, id, t) ==
    [active_sessions |-> DictSet(EmptyDict, id, NewSession(t)),
     feedback_history |-> DictSet(EmptyDict, id, <<>>)]

EmptyRegistry == Registry(EmptyDict, EmptyDict)

\* start_session as it would be if it kept a session that is already there
StartSessionIfAbsent(reg, id, t) ==
    IF id \in DOMAIN reg.active_sessions THEN reg
    ELSE Registry(DictSet(reg.active_sessions, id, NewSession(t)),
                  DictSet(reg.feedback_history, id, <<>>))

start_session(reg, id, t) ==
    Registry(DictSet(reg.active_sessions, id, NewSession(t)),
             DictSet(reg.feedback_history, id, <<>>))

\* a and h are what the two deletions returned: [exc, val]
Deleted(reg, a, h) ==
    IF a.exc # "" THEN [exc |-> a.exc, reg |-> reg]
    ELSE IF h.exc # ""
    THEN [exc |-> h.exc, reg |-> Registry(a.val, reg.feedback_history)]
    ELSE [exc |-> "", reg |-> Registry(a.val, h.val)]

\* if k in d: del d[k]
DelIfPresent(d, k) ==
    IF k \in DOMAIN d THEN DictDel(d, k) ELSE [exc |-> "", val |-> d]

end_session_unguarded(reg, id) ==
    Deleted(reg, DictDel(reg.active_sessions, id), DictDel(reg.feedback_history, id))

end_session(reg, id) ==
    Deleted(reg, DelIfPresent(reg.active_sessions, id),
            DelIfPresent(reg.feedback_history, id))

_get_empty_feedback(t) ==
    [timestamp |-> t,
     posture |-> [score |-> 0, messages |-> EmptyDict],
     speech |-> [messages |-> EmptyDict],
     suggestions |-> <<>>,
     overall_score |-> 0,
     alert_level |-> "unknown"]

---------------------------------------------------------------------------
(* Categories and canned messages; the score argument is in tenths *)

_categorize_posture(score) ==
    IF score >= posture_thresholds.good * 10 THEN "good"
    ELSE IF score >= posture_thresholds.okay * 10 THEN "okay"
    ELSE "poor"

_categorize_eye_contact(score) ==
    IF score >= eye_contact_thresholds.good * 10 THEN "good"
    ELSE IF score >= eye_contact_thresholds.moderate * 10 THEN "moderate"
    ELSE "poor"

\* wpm is the float n / d
_categorize_pace(wpm) ==
    IF wpm.n < pace_thresholds.too_slow * wpm.d THEN "too_slow"
    ELSE IF wpm.n < pace_thresholds.ideal_min * wpm.d THEN "slightly_slow"
    ELSE IF wpm.n <= pace_thresholds.ideal_max * wpm.d THEN "ideal"
    ELSE IF wpm.n <= pace_thresholds.too_fast * wpm.d THEN "slightly_fast"
    ELSE "too_fast"

_categorize_filler_rate(rate) ==
    IF rate <= filler_word_thresholds.low THEN "low"
    ELSE IF rate <= filler_word_thresholds.medium THEN "medium"
    ELSE "high"

_get_posture_feedback(score, trend) ==
    IF score >= 800 THEN "Great posture! You're projecting confidence."
    ELSE IF score >= 600
    THEN IF trend = "improving"
         THEN "Posture is improving. Keep your shoulders back."
         ELSE "Good posture. Try to sit up a bit straighter."
    ELSE "Adjust your posture. Sit up straight and align your shoulders."

_get_eye_contact_feedback(score, trend) ==
    IF score >= 750 THEN "Excellent eye contact with the audience."
    ELSE IF score >= 500
    THEN "Good eye contact. Try to look directly at the camera more."
    ELSE "Focus on looking at the camera to engage your audience."

_get_pace_feedback(wpm) ==
    IF 140 * wpm.d <= wpm.n /\ wpm.n <= 160 * wpm.d
    THEN "Perfect speaking pace - clear and engaging."
    ELSE IF wpm.n < 120 * wpm.d
    THEN "Your pace is slow. Try to speak a bit faster."
    ELSE IF wpm.n > 180 * wpm.d
    THEN "You're speaking quickly. Slow down for better clarity."
    ELSE "Good speaking pace. Maintain this rhythm."

_get_filler_feedback(rate) ==
    IF rate <= 2 THEN "Excellent control of filler words."
    ELSE IF rate <= 5
    THEN "Good speech clarity. Watch for occasional filler words."
    ELSE "Try pausing instead of using filler words like 'um' or 'like'."

\* values[-10:] if len(values) >= 10 else values
Recent(values) ==
    IF Len(values) >= TrendWindow
    THEN SubSeq(values, Len(values) - TrendWindow + 1, Len(values))
    ELSE values

\* slope > 1, slope < -1 for slope = num / den, the values being in tenths
TrendOfSlope(num, den) ==
    IF num > 10 * den THEN "improving"
    ELSE IF num < -(10 * den) THEN "declining"
    ELSE "stable"

\* The least-squares slope of np.polyfit(arange(n), recent, 1) is
\* (n*Sxy - Sx*Sy) / (n*Sxx - Sx*Sx), taken exactly
LeastSquares(n, Sx, Sxx, Sy, Sxy) ==
    TrendOfSlope(n * Sxy - Sx * Sy, n * Sxx - Sx * Sx)

TrendOfRecent(recent) ==
    LeastSquares(Len(recent),
                 SeqSum([i \in 1..Len(recent) |-> i - 1]),
                 SeqSum([i \in 1..Len(recent) |-> (i - 1) * (i - 1)]),
                 SeqSum(recent),
                 SeqSum([i \in 1..Len(recent) |-> (i - 1) * recent[i]]))

_calculate_trend(values) ==
    IF Len(values) < 2 THEN "stable" ELSE TrendOfRecent(Recent(values))

---------------------------------------------------------------------------
(* _analyze_posture *)

\* x.get('score', 0) of the nested entry posture_data.get(key, {}):
\* an entry that is no mapping has no .get (AttributeError)
NestedScore(entry) ==
    IF entry.t = "absent" THEN [exc |-> "", val |-> Num(0)]
    ELSE IF entry.t = "dict"
    THEN [exc |-> "", val |-> IF entry.score.t = "absent" THEN Num(0) ELSE entry.score]
    ELSE [exc |-> "AttributeError", val |-> Num(0)]

\* The outer get, given the default that Python evaluated first
OuterGet(flat_value, inner) ==
    IF inner.exc # "" THEN inner
    ELSE IF flat_value.t = "absent" THEN inner
    ELSE [exc |-> "", val |-> flat_value]

\* posture_data.get(flat, posture_data.get(nested, {}).get('score', 0))
ScoreOf(posture_data, flat, nested) ==
    OuterGet(posture_data[flat], NestedScore(posture_data[nested]))

\* `not posture_data`: None and the empty mapping are falsy
Falsy(posture_data) ==
    \/ posture_data.t = "none"
    \/ /\ posture_data.t = "dict"
       /\ \A k \in DOMAIN posture_data \ {"t"} : posture_data[k].t = "absent"

\* `x > 0` raises TypeError unless x is a number
IsNumber(x) == x.t = "num"

ReadyPosture ==
    [score |-> 0,
     eye_contact_score |-> 0,
     posture_status |-> "unknown",
     eye_contact_status |-> "unknown",
     posture_trend |-> "stable",
     eye_contact_trend |-> "stable",
     messages |-> [posture |-> "Ready to analyze...",
                   eye_contact |-> "Ready to analyze..."]]

TrendOf(scores) == IF scores # <<>> THEN _calculate_trend(scores) ELSE "stable"

\* The dictionary returned at lines 150-161; the scores are in tenths
PostureDict(posture_score, eye_contact_score, posture_trend, eye_contact_trend) ==
    [score |-> Max(0, Min(100, IntPart(posture_score))),
     eye_contact_score |-> Max(0, Min(100, IntPart(eye_contact_score))),
     posture_status |-> _categorize_posture(posture_score),
     eye_contact_status |-> _categorize_eye_contact(eye_contact_score),
     posture_trend |-> posture_trend,
     eye_contact_trend |-> eye_contact_trend,
     messages |->
       [posture |-> IF posture_score > 0
                    THEN _get_posture_feedback(posture_score, posture_trend)
                    ELSE "Analyzing posture...",
        eye_contact |-> IF eye_contact_score > 0
                        THEN _get_eye_contact_feedback(eye_contact_score,
                                                       eye_contact_trend)
                        ELSE "Analyzing eye contact..."]]

\* Lines 142-161, once both scores are known to be numbers
PostureFeedback(session, posture_score, eye_contact_score) ==
    PostureDict(posture_score, eye_contact_score,
                TrendOf(session.posture_scores),
                TrendOf(session.eye_contact_scores))

\* if posture_score > 0: session['posture_scores'].append(float(posture_score))
AppendPositive(scores, score, maxlen) ==
    IF score > 0 THEN DequeAppend(scores, score, maxlen) ELSE scores

Raised(exc, session) == [exc |-> exc, session |-> session, feedback |-> EmptyDict]

\* Lines 137-161 with the posture score stored: the eye-contact score
StoreEyeContact(session, posture_score, es) ==
    IF ~IsNumber(es)
    THEN Raised("TypeError", session)
    ELSE [exc |-> "",
          session |-> [session EXCEPT !.eye_contact_scores =
                         AppendPositive(@, es.v, EyeContactScoresMaxLen)],
          feedback |->
            PostureFeedback([session EXCEPT !.eye_contact_scores =
                               AppendPositive(@, es.v, EyeContactScoresMaxLen)],
                            posture_score, es.v)]

\* Lines 137-161: ps and es are the two scores as read, [exc, val]
StoreScores(session, ps, es) ==
    IF ps.exc # "" THEN Raised(ps.exc, session)
    ELSE IF es.exc # "" THEN Raised(es.exc, session)
    ELSE IF ~IsNumber(ps.val) THEN Raised("TypeError", session)
    ELSE StoreEyeContact([session EXCEPT !.posture_scores =
                            AppendPositive(@, ps.val.v, PostureScoresMaxLen)],
                         ps.val.v, es.val)

NoScore == [exc |-> "", val |-> Num(0)]

\* Returns [exc, session, feedback]: the session as the call left it, also
\* when it raised
_analyze_posture(session, posture_data) ==
    IF Falsy(posture_data)
    THEN [exc |-> "", session |-> session, feedback |-> ReadyPosture]
    ELSE IF posture_data.t = "dict"
    THEN StoreScores(session,
                     ScoreOf(posture_data, "posture_score", "posture"),
                     ScoreOf(posture_data, "eye_contact_score", "eye_contact"))
    ELSE StoreScores(session, NoScore, NoScore)

---------------------------------------------------------------------------
(* The arithmetic of Python floats (IEEE 754 doubles, round to nearest,   *)
(* ties to even) on the numbers _calculate_overall_score computes with.   *)
(* A natural number is the sequence of its binary digits, the least       *)
(* significant first and the last one 1; a double is m * 2^e, m a natural *)
(* number of at most 53 digits (2^53 itself included).                    *)

Digit(a, i) == IF i <= Len(a) THEN a[i] ELSE 0

\* The highest digit of a, at or below i, that is 1
RECURSIVE Top(_, _)
Top(a, i) == IF i = 0 \/ a[i] = 1 THEN i ELSE Top(a, i - 1)

\* a without its leading zeros
Strip(a) == SubSeq(a, 1, Top(a, Len(a)))

\* One digit of k * a + l * b: the digit and what is carried on
DigitOf(s) == [d |-> <<s % 2>>, c |-> s \div 2]

Carried(lower_d, upper) == [d |-> lower_d \o upper.d, c |-> upper.c]

\* The digits lo to hi of k * a + l * b, carry coming from the digits below
\* lo, and what is carried on from hi; the range is halved, the lower half
\* first
RECURSIVE LinearRange(_, _, _, _, _, _, _)
LinearUpper(a, b, k, l, mid, hi, lower) ==
    IF lower.d = <<>> THEN lower
    ELSE Carried(lower.d, LinearRange(a, b, k, l, mid + 1, hi, lower.c))

LinearRange(a, b, k, l, lo, hi, carry) ==
    IF lo = hi THEN DigitOf(k * Digit(a, lo) + l * Digit(b, lo) + carry)
    ELSE LinearUpper(a, b, k, l, (lo + hi) \div 2, hi,
                     LinearRange(a, b, k, l, lo, (lo + hi) \div 2, carry))

\* k * a + l * b for whole numbers |k|, |l| < 2^7: [d, c], the number being
\* d when c = 0, and negative when c < 0
Linear(a, b, k, l) == LinearRange(a, b, k, l, 1, Max(Len(a), Len(b)) + 8, 0)

AddNat(a, b) == Strip(Linear(a, b, 1, 1).d)

\* a - b, for a >= b
SubNat(a, b) == Strip(Linear(a, b, 1, -1).d)

GeNat(a, b) == Linear(a, b, 1, -1).c = 0

\* a * k for a whole number k from 0 to 100
MulNat(a, k) == Strip(Linear(a, <<>>, k, 0).d)

\* a * 2^k and a \div 2^k
ShiftLeft(a, k) == IF a = <<>> THEN <<>> ELSE [i \in 1..k |-> 0] \o a

ShiftRight(a, k) == SubSeq(a, k + 1, Len(a))

\* The whole number a, which is below 2^31
RECURSIVE NatValue(_)
NatValue(a) == IF a = <<>> THEN 0 ELSE a[1] + 2 * NatValue(Tail(a))

\* The binary digits of the whole number n
RECURSIVE NatOf(_)
NatOf(n) == IF n = 0 THEN <<>> ELSE <<n % 2>> \o NatOf(n \div 2)

Double(m, e) == [m |-> m, e |-> e]

\* The digits of a cut off below the 53 highest are more than half a unit
\* of the last digit kept, or exactly half and the last digit kept is odd;
\* inexact tells that the exact number has further digits below those of a
RoundsUp(a, cut, inexact) ==
    /\ a[cut] = 1
    /\ \/ inexact
       \/ \E i \in 1..(cut - 1) : a[i] = 1
       \/ a[cut + 1] = 1

\* a * 2^e rounded to 53 binary digits
Rounded(a, e, inexact) ==
    IF Len(a) <= 53 THEN Double(a, e)
    ELSE IF RoundsUp(a, Len(a) - 53, inexact)
    THEN Double(AddNat(SubSeq(a, Len(a) - 52, Len(a)), <<1>>), e + Len(a) - 53)
    ELSE Double(SubSeq(a, Len(a) - 52, Len(a)), e + Len(a) - 53)

\* score * weight, the score a whole number
DoubleTimes(score, weight) == Rounded(MulNat(weight.m, score), weight.e, FALSE)

\* x + y
DoublePlus(x, y) ==
    IF x.m = <<>> THEN y
    ELSE IF y.m = <<>> THEN x
    ELSE Rounded(AddNat(ShiftLeft(x.m, x.e - Min(x.e, y.e)),
                        ShiftLeft(y.m, y.e - Min(x.e, y.e))),
                 Min(x.e, y.e), FALSE)

\* One step of the long division by d: the digit of the quotient, and what
\* is left of r; difference is r - d
DigitIf(difference, r) ==
    IF difference.c = 0 THEN [q |-> <<1>>, r |-> Strip(difference.d)]
    ELSE [q |-> <<0>>, r |-> r]

DivDigit(d, r) == DigitIf(Linear(r, d, 1, -1), r)

Joined(upper_q, lower) == [q |-> lower.q \o upper_q, r |-> lower.r]

\* Long division of the digits hi down to lo of n by d, r being what the
\* digits above hi left: the digits of the quotient and the remainder
RECURSIVE DivRange(_, _, _, _, _)
DivLower(n, d, hi, lo, upper) ==
    IF upper.q = <<>> THEN upper
    ELSE Joined(upper.q, DivRange(n, d, hi, lo, upper.r))

DivRange(n, d, hi, lo, r) ==
    IF hi = lo THEN DivDigit(d, Strip(<<n[hi]>> \o r))
    ELSE DivLower(n, d, (hi + lo) \div 2, lo,
                  DivRange(n, d, hi, (hi + lo) \div 2 + 1, r))

Stripped(division) == [q |-> Strip(division.q), r |-> division.r]

\* [q, r] with n = q * d + r and r < d, for d > 0 and n of no fewer digits
\* than d: the Len(d) - 1 highest digits of n are below d, the division
\* begins with them as r
DivNat(n, d) ==
    Stripped(DivRange(n, d, Len(n) - Len(d) + 1, 1,
                      SubSeq(n, Len(n) - Len(d) + 2, Len(n))))

\* x / y for x, y > 0: the quotient of the mantissas is taken to at least
\* 55 digits, the remainder telling whether it is exact
QuotientRounded(division, e) == Rounded(division.q, e, division.r # <<>>)

DoubleOver(x, y) ==
    IF x.m = <<>> THEN x
    ELSE QuotientRounded(DivNat(ShiftLeft(x.m, 55 + Len(y.m) - Len(x.m)), y.m),
                         x.e - y.e - (55 + Len(y.m) - Len(x.m)))

\* int(min(limit, x)) for x >= 0 and a whole limit > 0: a number of more
\* digits than the limit is above it
TruncatedMin(x, limit) ==
    IF x.m = <<>> THEN 0
    ELSE IF Len(x.m) + x.e > Len(NatOf(limit)) THEN limit
    ELSE IF x.e >= 0 THEN Min(limit, NatValue(ShiftLeft(x.m, x.e)))
    ELSE Min(limit, NatValue(ShiftRight(x.m, -x.e)))

\* 0.3 and 0.15 are 0x13333333333333 * 2^-54 and * 2^-55; 0.25 is 2^-2
ThreeTenths == [i \in 1..53 |-> IF i = 53 \/ (i - 1) % 4 < 2 THEN 1 ELSE 0]

---------------------------------------------------------------------------
(* _analyze_speech: filler_hit is the outcome of np.random.random() < 0.05 *)

Truthy(audio_chunk) == audio_chunk.t = "str" /\ audio_chunk.v # ""

RECURSIVE CountRecent(_, _)
CountRecent(times, t) ==
    IF times = <<>> THEN 0
    ELSE (IF t - Head(times) < FillerWindow THEN 1 ELSE 0)
         + CountRecent(Tail(times), t)

\* word_count / session_duration * 60 if session_duration > 0 else 0
CurrentWpm(word_count, session_duration) ==
    IF session_duration > 0 THEN Frac(word_count * 60, session_duration)
    ELSE Frac(0, 1)

SpeechDict(current_wpm, filler_rate) ==
    [current_wpm |-> PyRound(current_wpm.n, current_wpm.d),
     filler_rate |-> filler_rate,
     pace_status |-> _categorize_pace(current_wpm),
     filler_status |-> _categorize_filler_rate(filler_rate),
     messages |-> [pace |-> _get_pace_feedback(current_wpm),
                   filler_words |-> _get_filler_feedback(filler_rate)]]

SpeechResult(session, t, word_count, current_wpm, filler_words) ==
    [session |-> [session EXCEPT
                    !.speech_data = [word_count |-> word_count,
                                     last_word_time |-> Some(t),
                                     current_pace |-> current_wpm],
                    !.filler_words = filler_words],
     feedback |-> SpeechDict(current_wpm, CountRecent(filler_words, t))]

_analyze_speech(session, t, filler_hit) ==
    SpeechResult(session, t,
                 session.speech_data.word_count + 1,
                 CurrentWpm(session.speech_data.word_count + 1,
                            t - session.start_time),
                 IF filler_hit
                 THEN DequeAppend(session.filler_words, t, FillerWordsMaxLen)
                 ELSE session.filler_words)

_combine_feedback(posture_feedback, speech_feedback, t) ==
    [posture |-> posture_feedback, speech |-> speech_feedback, timestamp |-> t]

---------------------------------------------------------------------------
(* _generate_suggestions *)

\* list(dict.fromkeys(s)): the first occurrence of each element, in order
RECURSIVE Dedup(_)
Dedup(s) ==
    IF s = <<>> THEN <<>>
    ELSE IF \E i \in 1..(Len(s) - 1) : s[i] = s[Len(s)]
    THEN Dedup(SubSeq(s, 1, Len(s) - 1))
    ELSE Append(Dedup(SubSeq(s, 1, Len(s) - 1)), s[Len(s)])

\* s[:n]
Take(s, n) == SubSeq(s, 1, Min(n, Len(s)))

PostureSuggestion(posture_status, posture_score) ==
    IF posture_status = "poor" /\ posture_score > 0
    THEN <<"Sit up straight - align your shoulders with your hips">>
    ELSE <<>>

EyeContactSuggestion(eye_status, eye_contact_score) ==
    IF eye_status = "poor" /\ eye_contact_score > 0
    THEN <<"Look directly at the camera for better engagement">>
    ELSE <<>>

PaceSuggestion(pace_status, wpm) ==
    IF pace_status = "too_slow" /\ wpm > 0
    THEN <<"Speak a bit faster to maintain audience interest">>
    ELSE IF pace_status = "too_fast" /\ wpm > 0
    THEN <<"Slow down slightly for better clarity">>
    ELSE <<>>

FillerSuggestion(filler_status, filler_rate) ==
    IF filler_status = "high" /\ filler_rate > 0
    THEN <<"Practice pausing instead of using filler words">>
    ELSE IF filler_status = "medium" /\ filler_rate > 0
    THEN <<"Watch for occasional filler words like 'um' or 'like'">>
    ELSE <<>>

\* Lines 253-266: suggestions holds the corrective suggestions collected
Reinforce(suggestions, overall_score) ==
    IF overall_score >= 80 /\ suggestions = <<>>
    THEN <<"Great job! Your delivery is confident and clear">>
    ELSE suggestions

Encourage(suggestions) ==
    IF suggestions = <<>> THEN <<"Keep practicing and you'll improve!">>
    ELSE suggestions

\* Lines 229-250: the corrective suggestions, in the order they are appended
Corrective(posture_data, speech_data) ==
    PostureSuggestion(DictGet(posture_data, "posture_status", "unknown"),
                      DictGet(posture_data, "score", 0))
    \o EyeContactSuggestion(DictGet(posture_data, "eye_contact_status", "unknown"),
                            DictGet(posture_data, "eye_contact_score", 0))
    \o PaceSuggestion(DictGet(speech_data, "pace_status", "ideal"),
                      DictGet(speech_data, "current_wpm", 0))
    \o FillerSuggestion(DictGet(speech_data, "filler_status", "low"),
                        DictGet(speech_data, "filler_rate", 0))

NoDataYet(posture_data, speech_data) ==
    /\ DictGet(posture_data, "score", 0) = 0
    /\ DictGet(posture_data, "eye_contact_score", 0) = 0
    /\ DictGet(speech_data, "current_wpm", 0) = 0

\* s[-3:]
LastThree(s) == SubSeq(s, Max(1, Len(s) - 2), Len(s))

\* the suggestions cut to the last three instead of the first three
SuggestLastThree(posture_data, speech_data, overall_score) ==
    IF NoDataYet(posture_data, speech_data)
    THEN <<"Start speaking to get real-time feedback...">>
    ELSE Encourage(LastThree(Dedup(Reinforce(Corrective(posture_data, speech_data),
                                             overall_score))))

Suggest(posture_data, speech_data, overall_score) ==
    IF NoDataYet(posture_data, speech_data)
    THEN <<"Start speaking to get real-time feedback...">>
    ELSE Encourage(Take(Dedup(Reinforce(Corrective(posture_data, speech_data),
                                        overall_score)), 3))

\* feedback.get('overall_score', 0): the combined feedback holds no such key
_generate_suggestions(feedback) ==
    Suggest(DictGet(feedback, "posture", EmptyDict),
            DictGet(feedback, "speech", EmptyDict),
            DictGet(feedback, "overall_score", 0))

---------------------------------------------------------------------------
(* _calculate_overall_score and _determine_alert_level *)

PaceScore(wpm) ==
    IF 140 <= wpm /\ wpm <= 160 THEN 100
    ELSE IF wpm = 0 THEN 50
    ELSE Max(0, 100 - Abs(wpm - 150) * 2)

FillerScore(filler_rate) ==
    IF filler_rate > 0 THEN Max(0, 100 - filler_rate * 10) ELSE 100

\* The weights of lines 299-309 as doubles
weight ==
    [posture |-> Double(ThreeTenths, -54),
     eye_contact |-> Double(ThreeTenths, -54),
     pace |-> Double(<<1>>, -2),
     filler |-> Double(ThreeTenths, -55)]

\* x += y if the score is positive
PlusIfPositive(x, score, y) == IF score > 0 THEN DoublePlus(x, y) ELSE x

\* weighted_score as lines 296-309 accumulate it, from 0
WeightedScore(posture_score, eye_contact_score, pace_score, filler_score) ==
    DoublePlus(
      DoublePlus(
        PlusIfPositive(
          PlusIfPositive(Double(<<>>, 0), posture_score,
                         DoubleTimes(posture_score, weight.posture)),
          eye_contact_score, DoubleTimes(eye_contact_score, weight.eye_contact)),
        DoubleTimes(pace_score, weight.pace)),
      DoubleTimes(filler_score, weight.filler))

\* total_weight as the same lines accumulate it
TotalWeight(posture_score, eye_contact_score) ==
    DoublePlus(
      DoublePlus(
        PlusIfPositive(
          PlusIfPositive(Double(<<>>, 0), posture_score, weight.posture),
          eye_contact_score, weight.eye_contact),
        weight.pace),
      weight.filler)

\* weighted_score / total_weight, and int(max(0, min(100, ...))) of it
DoubleAverage(posture_score, eye_contact_score, pace_score, filler_score) ==
    TruncatedMin(
      DoubleOver(WeightedScore(posture_score, eye_contact_score, pace_score,
                               filler_score),
                 TotalWeight(posture_score, eye_contact_score)),
      100)

\* 0.3 if the score is positive, in hundredths
WeightIfPositive(score) == IF score > 0 THEN 30 ELSE 0

\* The weighted sum and the sum of the weights in exact arithmetic, in
\* hundredths
ExactSum(posture_score, eye_contact_score, pace_score, filler_score) ==
    posture_score * WeightIfPositive(posture_score)
    + eye_contact_score * WeightIfPositive(eye_contact_score)
    + pace_score * 25 + filler_score * 15

ExactWeight(posture_score, eye_contact_score) ==
    WeightIfPositive(posture_score) + WeightIfPositive(eye_contact_score) + 25 + 15

\* The scores of the frames that recur in the runs: <<posture score,
\* eye-contact score, pace score, filler score>>
RecurrentFrames ==
    {<<s[1], s[2], pace_score, filler_score>> :
       s \in {<<90, 90>>, <<30, 100>>, <<70, 0>>},
       pace_score \in {0, 40, 50},
       filler_score \in {70, 80, 90, 100}}

\* DoubleAverage of the frames of a set, computed once
RECURSIVE AveragesOver(_)
AverageAnd(frame, frames) ==
    (frame :> DoubleAverage(frame[1], frame[2], frame[3], frame[4]))
    @@ AveragesOver(frames \ {frame})

AveragesOver(frames) ==
    IF frames = {} THEN <<>>
    ELSE AverageAnd(CHOOSE frame \in frames : TRUE, frames)

RecurrentAverages ==
    AveragesOver({frame \in RecurrentFrames :
                    ExactSum(frame[1], frame[2], frame[3], frame[4])
                    % ExactWeight(frame[1], frame[2]) = 0})

\* The sub-scores reaching here are whole numbers from 0 to 100.  The doubles
\* differ from the exact sums and quotient by less than 2^-40, an exact
\* quotient that is not whole is at least 1/100 away from a whole number,
\* and so the integer part can differ only where the exact quotient is
\* whole: there it is taken from the doubles.
AverageOfScores(posture_score, eye_contact_score, pace_score, filler_score) ==
    IF ExactSum(posture_score, eye_contact_score, pace_score, filler_score)
       % ExactWeight(posture_score, eye_contact_score) # 0
    THEN Max(0, Min(100,
           ExactSum(posture_score, eye_contact_score, pace_score, filler_score)
           \div ExactWeight(posture_score, eye_contact_score)))
    ELSE IF <<posture_score, eye_contact_score, pace_score, filler_score>>
            \in DOMAIN RecurrentAverages
    THEN RecurrentAverages[<<posture_score, eye_contact_score, pace_score,
                             filler_score>>]
    ELSE DoubleAverage(posture_score, eye_contact_score, pace_score, filler_score)

\* The weighted average without the "still analyzing" return of line 292
WeightedAverageOfAll(posture_score, eye_contact_score, pace_score, filler_score) ==
    AverageOfScores(posture_score, eye_contact_score, pace_score, filler_score)

WeightedAverage(posture_score, eye_contact_score, pace_score, filler_score) ==
    IF posture_score = 0 /\ eye_contact_score = 0 THEN 50
    ELSE AverageOfScores(posture_score, eye_contact_score, pace_score, filler_score)

OverallOf(posture_data, speech_data) ==
    WeightedAverage(DictGet(posture_data, "score", 0),
                    DictGet(posture_data, "eye_contact_score", 0),
                    PaceScore(DictGet(speech_data, "current_wpm", 0)),
                    FillerScore(DictGet(speech_data, "filler_rate", 0)))

_calculate_overall_score(feedback) ==
    OverallOf(DictGet(feedback, "posture", EmptyDict),
              DictGet(feedback, "speech", EmptyDict))

\* the buckets with 'excellent' starting at 90
AlertOfNinety(score) ==
    IF score >= 90 THEN "excellent"
    ELSE IF score >= 60 THEN "good"
    ELSE IF score >= 40 THEN "needs_improvement"
    ELSE "poor"

AlertOf(score) ==
    IF score >= 80 THEN "excellent"
    ELSE IF score >= 60 THEN "good"
    ELSE IF score >= 40 THEN "needs_improvement"
    ELSE "poor"

_determine_alert_level(feedback) == AlertOf(_calculate_overall_score(feedback))

---------------------------------------------------------------------------
(* _update_session_metrics *)

Point(timestamp, x) == [timestamp |-> timestamp, value |-> x]

UpdateMetrics(session, posture, speech, timestamp) ==
    [session EXCEPT
       !.metrics_history =
         [posture |-> Append(@.posture, Point(timestamp, DictGet(posture, "score", 0))),
          eye_contact |-> Append(@.eye_contact,
                                 Point(timestamp, DictGet(posture, "eye_contact_score", 0))),
          pace |-> Append(@.pace, Point(timestamp, DictGet(speech, "current_wpm", 0))),
          filler_rate |-> Append(@.filler_rate,
                                 Point(timestamp, DictGet(speech, "filler_rate", 0)))]]

_update_session_metrics(session, feedback, timestamp) ==
    UpdateMetrics(session, DictGet(feedback, "posture", EmptyDict),
                  DictGet(feedback, "speech", EmptyDict), timestamp)

---------------------------------------------------------------------------
(* analyze_frame *)

\* Lines 94-101
FeedbackDict(t, posture_feedback, speech_feedback, combined_feedback) ==
    [timestamp |-> t,
     posture |-> posture_feedback,
     speech |-> speech_feedback,
     suggestions |-> _generate_suggestions(combined_feedback),
     overall_score |-> _calculate_overall_score(combined_feedback),
     alert_level |-> _determine_alert_level(combined_feedback)]

\* Lines 103-107: session is the session with its metrics updated
StoreFeedback(reg, id, session, feedback) ==
    IF id \notin DOMAIN reg.feedback_history
    THEN [exc |-> "KeyError",
          reg |-> [reg EXCEPT !.active_sessions[id] = session],
          ret |-> EmptyDict]
    ELSE [exc |-> "",
          reg |-> [reg EXCEPT
                     !.active_sessions[id] =
                       [session EXCEPT !.feedback_messages =
                          DequeAppend(@, feedback, FeedbackMessagesMaxLen)],
                     !.feedback_history[id] = Append(@, feedback)],
          ret |-> feedback]

\* Lines 83-107: sp is [session, feedback] as the speech step left them
Combine(reg, id, t, posture_feedback, sp, combined_feedback) ==
    StoreFeedback(reg, id,
                  _update_session_metrics(sp.session, combined_feedback, t),
                  FeedbackDict(t, posture_feedback, sp.feedback, combined_feedback))

AfterSpeech(reg, id, t, posture_feedback, sp) ==
    Combine(reg, id, t, posture_feedback, sp,
            _combine_feedback(posture_feedback, sp.feedback, t))

\* Lines 78-107: p is what _analyze_posture returned
AfterPosture(reg, id, audio_chunk, t, filler_hit, p) ==
    IF p.exc # ""
    THEN [exc |-> p.exc,
          reg |-> [reg EXCEPT !.active_sessions[id] = p.session],
          ret |-> EmptyDict]
    ELSE AfterSpeech(reg, id, t, p.feedback,
                     IF Truthy(audio_chunk)
                     THEN _analyze_speech(p.session, t, filler_hit)
                     ELSE [session |-> p.session, feedback |-> EmptyDict])

\* The try block of analyze_frame on an Active session: [exc, reg, ret]
AnalyzeActive(reg, id, posture_data, audio_chunk, t, filler_hit) ==
    AfterPosture(reg, id, audio_chunk, t, filler_hit,
                 _analyze_posture(reg.active_sessions[id], posture_data))

\* A handler that lets the exception through
Reraise(r, t) ==
    [raised |-> r.exc, logged |-> "", reg |-> r.reg,
     ret |-> IF r.exc # "" THEN PyNone ELSE r.ret]

\* except Exception: logger.error(...) and return the empty feedback
Caught(r, t) ==
    [raised |-> "", logged |-> r.exc, reg |-> r.reg,
     ret |-> IF r.exc # "" THEN _get_empty_feedback(t) ELSE r.ret]

\* analyze_frame as it would be if it started a session for an unknown id
AnalyzeOrStart(reg, id, posture_data, audio_chunk, t, filler_hit) ==
    Caught(AnalyzeActive(IF id \notin DOMAIN reg.active_sessions
                         THEN start_session(reg, id, t) ELSE reg,
                         id, posture_data, audio_chunk, t, filler_hit), t)

\* Returns [raised, logged, reg, ret]: the exception that left the call, the
\* one it logged, the registry as it left it and the value returned
analyze_frame(reg, id, posture_data, audio_chunk, t, filler_hit) ==
    IF id \notin DOMAIN reg.active_sessions
    THEN [raised |-> "", logged |-> "", reg |-> reg, ret |-> _get_empty_feedback(t)]
    ELSE Caught(AnalyzeActive(reg, id, posture_data, audio_chunk, t, filler_hit), t)

---------------------------------------------------------------------------
(* services/scoring_engine.py: ScoringEngine.                              *)
(* Scores are floats in the code; here they are exact fractions n / d of a *)
(* point (d > 0, lowest terms).  Averages, percentages, words per minute,  *)
(* durations and the pace variation arrive as Num(v), v in tenths; counts  *)
(* are plain integers.                                                     *)

Rat(n, d) ==
    IF d < 0 THEN Frac(-n, -d)
    ELSE IF n < 0 THEN [Frac(-n, d) EXCEPT !.n = -@]
    ELSE Frac(n, d)

Whole(k) == Rat(k, 1)

\* A number of an analysis: in tenths, unless it says in what it is given
Tenths(x) == Rat(x.v, DictGet(x, "per", 10))

RatAdd(a, b) == Rat(a.n * b.d + b.n * a.d, a.d * b.d)

RatSub(a, b) == Rat(a.n * b.d - b.n * a.d, a.d * b.d)

RatMul(a, b) == Rat(a.n * b.n, a.d * b.d)

RatDiv(a, b) == Rat(a.n * b.d, a.d * b.n)

RatLe(a, b) == a.n * b.d <= b.n * a.d

RatLt(a, b) == a.n * b.d < b.n * a.d

RatMin(a, b) == IF RatLe(a, b) THEN a ELSE b

RatMax(a, b) == IF RatLe(b, a) THEN a ELSE b

\* x * (h / 100): a product with a weight written in hundredths
Weighted(x, h) == RatMul(x, Rat(h, 100))

\* round(x, 1) in tenths of a point, halves to the even tenth (the float the
\* code rounds can lie just off an exact half; the analyses scored below
\* give no total that is one)
Round1(x) ==
    IF x.n >= 0 THEN PyRound(x.n * 10, x.d) ELSE -PyRound((-x.n) * 10, x.d)

\* self.weights, in hundredths
weights ==
    [posture |-> [score |-> 15, consistency |-> 5, trend |-> 5],
     eye_contact |-> [score |-> 10, consistency |-> 5],
     speech |-> [wpm |-> 10, filler_words |-> 10, pauses |-> 5,
                 repetition |-> 5, grammar |-> 5],
     content |-> [relevance |-> 15, structure |-> 5, vocabulary |-> 5],
     delivery |-> [pace_consistency |-> 5, volume_stability |-> 5]]

\* self.ideal_ranges; pause_ratio is in hundredths
ideal_ranges ==
    [wpm |-> <<140, 160>>,
     filler_words_per_minute |-> <<0, 3>>,
     pause_ratio |-> <<10, 30>>,
     posture_score |-> <<80, 100>>,
     eye_contact_score |-> <<75, 100>>]

\* sum(d.values())
RECURSIVE SumOver(_, _)
SumOver(d, keys) ==
    IF keys = {} THEN 0
    ELSE d[CHOOSE k \in keys : TRUE]
         + SumOver(d, keys \ {CHOOSE k \in keys : TRUE})

SumValues(d) == SumOver(d, DOMAIN d)

\* `not x` for an analysis: None and the empty mapping are falsy
NoAnalysis(x) == x = PyNone \/ DOMAIN x = {}

\* What a _calculate_*_score method hands back: the exception it raised, if
\* any, or its dictionary
Failed(exc) == [exc |-> exc, total |-> Whole(0), components |-> EmptyDict]

Scored(total, components) == [exc |-> "", total |-> total, components |-> components]

\* x.get(key, {}) on something that must be a mapping to have a .get
GetDict(x, key) ==
    IF x = PyStr \/ x = PyList THEN [exc |-> "AttributeError", val |-> EmptyDict]
    ELSE [exc |-> "", val |-> DictGet(x, key, EmptyDict)]

\* A score read with .get(key, 0): arithmetic on it raises TypeError unless
\* it is a number
GetNumber(d, key) ==
    IF d.exc # "" THEN [exc |-> d.exc, val |-> Whole(0)]
    ELSE IF d.val = PyStr \/ d.val = PyList
    THEN [exc |-> "AttributeError", val |-> Whole(0)]
    ELSE IF key \notin DOMAIN d.val THEN [exc |-> "", val |-> Whole(0)]
    ELSE IF d.val[key].t # "num" THEN [exc |-> "TypeError", val |-> Whole(0)]
    ELSE [exc |-> "", val |-> Tenths(d.val[key])]

\* min(100, good_percentage * 1.2)
Consistency(good_percentage) ==
    RatMin(Whole(100), RatMul(good_percentage, Rat(12, 10)))

PostureTotal(base_score, consistency_score, trend_score) ==
    Scored(RatAdd(RatAdd(Weighted(base_score, 70), Weighted(consistency_score, 20)),
                  Weighted(trend_score, 10)),
           [base_score |-> base_score, consistency |-> consistency_score,
            trend |-> trend_score])

\* base and good are the two numbers as read: [exc, val]
PostureScoreOf(base, good) ==
    IF base.exc # "" THEN Failed(base.exc)
    ELSE IF good.exc # "" THEN Failed(good.exc)
    ELSE PostureTotal(base.val, Consistency(good.val), Whole(80))

_calculate_posture_score(posture_analysis) ==
    IF NoAnalysis(posture_analysis) THEN Scored(Whole(0), EmptyDict)
    ELSE PostureScoreOf(
           GetNumber(GetDict(posture_analysis, "summary"), "average_posture_score"),
           GetNumber(GetDict(GetDict(posture_analysis, "summary").val,
                             "posture_breakdown"), "good_percentage"))

EyeContactTotal(base_score, consistency_score) ==
    Scored(RatAdd(Weighted(base_score, 80), Weighted(consistency_score, 20)),
           [base_score |-> base_score, consistency |-> consistency_score])

EyeContactScoreOf(base, good) ==
    IF base.exc # "" THEN Failed(base.exc)
    ELSE IF good.exc # "" THEN Failed(good.exc)
    ELSE EyeContactTotal(base.val, Consistency(good.val))

_calculate_eye_contact_score(posture_analysis) ==
    IF NoAnalysis(posture_analysis) THEN Scored(Whole(0), EmptyDict)
    ELSE EyeContactScoreOf(
           GetNumber(GetDict(posture_analysis, "summary"), "average_eye_contact_score"),
           GetNumber(GetDict(GetDict(posture_analysis, "summary").val,
                             "eye_contact_breakdown"), "good_percentage"))

---------------------------------------------------------------------------
(* The speech sub-scores *)

_calculate_wpm_score(wpm) ==
    IF RatLe(Whole(ideal_ranges.wpm[1]), wpm) /\ RatLe(wpm, Whole(ideal_ranges.wpm[2]))
    THEN Whole(100)
    ELSE IF RatLt(wpm, Whole(100)) THEN RatMax(Whole(0), wpm)
    ELSE IF RatLt(Whole(200), wpm)
    THEN RatMax(Whole(0), RatSub(Whole(100), RatMul(RatSub(wpm, Whole(200)), Rat(1, 2))))
    ELSE IF RatLt(wpm, Whole(ideal_ranges.wpm[1]))
    THEN RatAdd(Whole(80), RatSub(wpm, Whole(120)))
    ELSE RatSub(Whole(100), RatSub(wpm, Whole(ideal_ranges.wpm[2])))

\* A filler score that goes on from 30 above ten fillers a minute
FillerScoreFromThirty(filler_rate) ==
    IF RatLe(filler_rate, Whole(3)) THEN Whole(100)
    ELSE IF RatLe(filler_rate, Whole(10))
    THEN RatSub(Whole(100), RatMul(RatSub(filler_rate, Whole(3)), Whole(10)))
    ELSE RatMax(Whole(0),
                RatSub(Whole(30), RatMul(RatSub(filler_rate, Whole(10)), Whole(5))))

_calculate_filler_score(filler_rate) ==
    IF RatLe(filler_rate, Whole(ideal_ranges.filler_words_per_minute[2]))
    THEN Whole(100)
    ELSE IF RatLe(filler_rate, Whole(10))
    THEN RatMax(Whole(0),
                RatSub(Whole(100),
                       RatMul(RatSub(filler_rate,
                                     Whole(ideal_ranges.filler_words_per_minute[2])),
                              Whole(10))))
    ELSE RatMax(Whole(0),
                RatSub(Whole(50), RatMul(RatSub(filler_rate, Whole(10)), Whole(5))))

\* The three branches of lines 312-317
PauseScoreOf(pause_ratio, ideal_min, ideal_max) ==
    IF RatLe(ideal_min, pause_ratio) /\ RatLe(pause_ratio, ideal_max) THEN Whole(100)
    ELSE IF RatLt(pause_ratio, ideal_min)
    THEN RatAdd(Whole(80), RatMul(RatDiv(pause_ratio, ideal_min), Whole(20)))
    ELSE RatMax(Whole(0),
                RatSub(Whole(100),
                       RatMul(RatDiv(RatSub(pause_ratio, ideal_max), ideal_max),
                              Whole(100))))

_calculate_pause_score(pause_data, duration) ==
    IF duration.n = 0 THEN Whole(0)
    ELSE PauseScoreOf(RatDiv(Tenths(DictGet(pause_data, "total_duration", Num(0))),
                             duration),
                      Rat(ideal_ranges.pause_ratio[1], 100),
                      Rat(ideal_ranges.pause_ratio[2], 100))

RepetitionScoreOf(total_repetitions) ==
    IF total_repetitions = 0 THEN 100
    ELSE IF total_repetitions <= 5 THEN 80
    ELSE IF total_repetitions <= 10 THEN 60
    ELSE IF total_repetitions <= 20 THEN 40
    ELSE 20

_calculate_repetition_score(repetition_data) ==
    Whole(RepetitionScoreOf(SumValues(DictGet(repetition_data, "repeated_words",
                                               EmptyDict))))

\* error_rate is error_count / word_count
GrammarScoreOf(error_count, word_count) ==
    IF error_count = 0 THEN 100
    ELSE IF error_count * 100 <= word_count THEN 90
    ELSE IF error_count * 100 <= 2 * word_count THEN 80
    ELSE IF error_count * 100 <= 5 * word_count THEN 60
    ELSE 40

_calculate_grammar_score(grammar_data, word_count) ==
    IF word_count = 0 THEN Whole(0)
    ELSE Whole(GrammarScoreOf(DictGet(grammar_data, "count", 0), word_count))

\* filler_count / duration * 60 if duration > 0 else 0
FillerRate(filler_count, duration) ==
    IF duration.n > 0 THEN RatMul(RatDiv(Whole(filler_count), duration), Whole(60))
    ELSE Whole(0)

\* sum(score * weight) / sum(weights) over the five components
SpeechTotal(components) ==
    Scored(RatDiv(RatAdd(RatAdd(RatAdd(Weighted(components.wpm, weights.speech.wpm),
                                       Weighted(components.filler_words,
                                                weights.speech.filler_words)),
                                RatAdd(Weighted(components.pauses, weights.speech.pauses),
                                       Weighted(components.repetition,
                                                weights.speech.repetition))),
                         Weighted(components.grammar, weights.speech.grammar)),
                  Rat(SumValues(weights.speech), 100)),
           components)

SpeechScoresOf(speech_analysis, duration) ==
    SpeechTotal(
      [wpm |-> _calculate_wpm_score(
                 Tenths(DictGet(speech_analysis, "words_per_minute", Num(0)))),
       filler_words |-> _calculate_filler_score(
                 FillerRate(DictGet(DictGet(speech_analysis, "filler_words", EmptyDict),
                                    "total_count", 0), duration)),
       pauses |-> _calculate_pause_score(
                 DictGet(speech_analysis, "pauses", EmptyDict), duration),
       repetition |-> _calculate_repetition_score(
                 DictGet(speech_analysis, "repetition", EmptyDict)),
       grammar |-> _calculate_grammar_score(
                 DictGet(speech_analysis, "grammar_errors", EmptyDict),
                 DictGet(speech_analysis, "word_count", 1))])

_calculate_speech_scores(speech_analysis) ==
    IF NoAnalysis(speech_analysis) THEN Scored(Whole(0), EmptyDict)
    ELSE IF speech_analysis = PyStr \/ speech_analysis = PyList
    THEN Failed("AttributeError")
    ELSE SpeechScoresOf(speech_analysis,
                        Tenths(DictGet(speech_analysis, "duration_seconds", Num(10))))

---------------------------------------------------------------------------
(* The content score.  A transcript is the sequence of its whitespace-     *)
(* separated words, all lower case: w is the word, n its number of         *)
(* letters, stop tells whether a full stop is attached to it.              *)

Word(w, n, stop) == [w |-> w, n |-> n, stop |-> stop]

\* The words of the transcripts that hold another word as a substring
SubstringPairs == {<<"database", "data">>}

\* keyword in transcript, for a keyword without spaces
InTranscript(keyword, transcript) ==
    \E i \in 1..Len(transcript) :
        \/ transcript[i].w = keyword
        \/ <<transcript[i].w, keyword>> \in SubstringPairs

\* A list of topic keywords (the argument may also be None)
Keywords(items) == [t |-> "list", items |-> items]

KeywordMatches(transcript, keywords) ==
    Cardinality({i \in 1..Len(keywords) : InTranscript(keywords[i], transcript)})

\* not topic_keywords
NoKeywords(topic_keywords) ==
    topic_keywords.t = "none" \/ topic_keywords.items = <<>>

_calculate_relevance_score(transcript, topic_keywords) ==
    IF NoKeywords(topic_keywords) \/ transcript = <<>>
    THEN Whole(50)
    ELSE RatMin(Whole(100),
                RatMul(RatMul(Rat(KeywordMatches(transcript, topic_keywords.items),
                                  Len(topic_keywords.items)),
                              Whole(100)),
                       Rat(12, 10)))

\* The non-empty pieces of transcript.split('.'): one for each full stop,
\* and one more when words follow the last full stop
SentenceCount(transcript) ==
    Cardinality({i \in 1..Len(transcript) : transcript[i].stop})
    + (IF transcript # <<>> /\ ~transcript[Len(transcript)].stop THEN 1 ELSE 0)

StructureScoreOf(word_count, sentence_count) ==
    IF sentence_count = 0 THEN 50
    ELSE IF 15 * sentence_count <= word_count /\ word_count <= 25 * sentence_count
    THEN 90
    ELSE IF 10 * sentence_count <= word_count /\ word_count <= 30 * sentence_count
    THEN 70
    ELSE 50

_calculate_structure_score(transcript, word_count) ==
    IF word_count < 50 THEN Whole(50)
    ELSE Whole(StructureScoreOf(word_count, SentenceCount(transcript)))

\* [w for w in transcript.split() if len(w) > 2], as positions
LongWords(transcript) ==
    {i \in 1..Len(transcript) :
       transcript[i].n + (IF transcript[i].stop THEN 1 ELSE 0) > 2}

\* len(set(words)): a word with a full stop attached is another string
UniqueWords(transcript, positions) ==
    Cardinality({<<transcript[i].w, transcript[i].stop>> : i \in positions})

DiversityScoreOf(unique, total) ==
    IF total = 0 THEN 50
    ELSE IF 10 * unique >= 7 * total THEN 90
    ELSE IF 10 * unique >= 5 * total THEN 70
    ELSE IF 10 * unique >= 3 * total THEN 50
    ELSE 30

_calculate_vocabulary_score(speech_analysis) ==
    IF DictGet(speech_analysis, "word_count", 0) < 20 THEN Whole(50)
    ELSE Whole(DiversityScoreOf(
           UniqueWords(DictGet(speech_analysis, "transcript", <<>>),
                       LongWords(DictGet(speech_analysis, "transcript", <<>>))),
           Cardinality(LongWords(DictGet(speech_analysis, "transcript", <<>>)))))

ContentTotal(relevance_score, structure_score, vocabulary_score) ==
    Scored(RatAdd(RatAdd(Weighted(relevance_score, 60), Weighted(structure_score, 20)),
                  Weighted(vocabulary_score, 20)),
           [relevance |-> relevance_score, structure |-> structure_score,
            vocabulary |-> vocabulary_score])

_calculate_content_score(speech_analysis, topic_keywords) ==
    IF NoAnalysis(speech_analysis) THEN Scored(Whole(0), EmptyDict)
    ELSE IF speech_analysis = PyStr \/ speech_analysis = PyList
    THEN Failed("AttributeError")
    ELSE ContentTotal(
           _calculate_relevance_score(DictGet(speech_analysis, "transcript", <<>>),
                                      topic_keywords),
           _calculate_structure_score(DictGet(speech_analysis, "transcript", <<>>),
                                      DictGet(speech_analysis, "word_count", 0)),
           _calculate_vocabulary_score(speech_analysis))

---------------------------------------------------------------------------
(* The delivery score *)

DeliveryTotal(pace_consistency, volume_stability) ==
    Scored(RatAdd(Weighted(pace_consistency, 60), Weighted(volume_stability, 40)),
           [pace_consistency |-> pace_consistency,
            volume_stability |-> volume_stability])

_calculate_delivery_score(speech_analysis) ==
    IF NoAnalysis(speech_analysis) THEN Scored(Whole(0), EmptyDict)
    ELSE IF speech_analysis = PyStr \/ speech_analysis = PyList
    THEN Failed("AttributeError")
    ELSE DeliveryTotal(
           RatMax(Whole(0),
                  RatSub(Whole(100),
                         RatMul(Tenths(DictGet(DictGet(speech_analysis, "pace_analysis",
                                                       EmptyDict),
                                               "pace_variation", Num(0))),
                                Whole(10)))),
           Whole(80))

---------------------------------------------------------------------------
(* calculate_overall_score *)

_get_performance_level(score) ==
    IF RatLe(Whole(90), score) THEN "Excellent"
    ELSE IF RatLe(Whole(80), score) THEN "Very Good"
    ELSE IF RatLe(Whole(70), score) THEN "Good"
    ELSE IF RatLe(Whole(60), score) THEN "Satisfactory"
    ELSE IF RatLe(Whole(50), score) THEN "Needs Improvement"
    ELSE "Needs Practice"

\* The order in which category_scores holds its keys
CategoryOrder == <<"posture", "eye_contact", "speech", "content", "delivery">>

\* The advice strings, without the pictograph each starts with
Advice ==
    [posture |-> "Practice maintaining better posture. Sit up straight and keep shoulders relaxed.",
     eye_contact |-> "Improve eye contact by looking directly at the camera more frequently.",
     speech |-> "Work on speech clarity. Reduce filler words and practice pacing.",
     content |-> "Focus on staying relevant to your topic. Use more topic-specific keywords.",
     delivery |-> "Vary your speaking pace and volume to make your delivery more engaging."]

\* list.sort(key=total) is stable: c goes behind every entry that is not
\* greater
RECURSIVE InsertByTotal(_, _, _)
InsertByTotal(sorted, c, category_scores) ==
    IF sorted = <<>> THEN <<c>>
    ELSE IF RatLt(category_scores[c].total, category_scores[Head(sorted)].total)
    THEN <<c>> \o sorted
    ELSE <<Head(sorted)>> \o InsertByTotal(Tail(sorted), c, category_scores)

\* The weak categories left in the order of the dictionary
InDictionaryOrder(categories, category_scores) == categories

RECURSIVE WeakestFirst(_, _)
WeakestFirst(categories, category_scores) ==
    IF categories = <<>> THEN <<>>
    ELSE InsertByTotal(
           WeakestFirst(SubSeq(categories, 1, Len(categories) - 1), category_scores),
           categories[Len(categories)], category_scores)

\* The categories whose total is below 70, in the order of the dictionary
WeakCategories(category_scores) ==
    LET IsWeak(c) == RatLt(category_scores[c].total, Whole(70))
    IN  SelectSeq(CategoryOrder, IsWeak)

RecommendationsOf(weak_categories, category_scores) ==
    IF weak_categories = <<>>
    THEN (IF \E i \in 1..Len(CategoryOrder) :
                RatLe(Whole(80), category_scores[CategoryOrder[i]].total)
          THEN <<"Great overall performance! Continue practicing to maintain these skills.">>
          ELSE <<>>)
    ELSE [i \in 1..Min(3, Len(weak_categories)) |->
            Advice[WeakestFirst(weak_categories, category_scores)[i]]]

_generate_recommendations(category_scores) ==
    RecommendationsOf(WeakCategories(category_scores), category_scores)

\* The zeroed score; totals are in tenths of a point
_get_empty_score ==
    [total |-> 0,
     performance_level |-> "Needs Practice",
     category_scores |-> EmptyDict,
     recommendations |-> <<"Start practicing to get your first score!">>,
     breakdown |-> [posture |-> 0, eye_contact |-> 0, speech |-> 0,
                    content |-> 0, delivery |-> 0]]

\* Lines 60-66: the weights the five totals are multiplied by, in hundredths
AppliedWeights ==
    [posture |-> weights.posture.score,
     eye_contact |-> weights.eye_contact.score,
     speech |-> SumValues(weights.speech),
     content |-> SumValues(weights.content),
     delivery |-> SumValues(weights.delivery)]

\* The five totals multiplied by the sums of their categories' own weights
SummedWeights ==
    [posture |-> SumValues(weights.posture),
     eye_contact |-> SumValues(weights.eye_contact),
     speech |-> SumValues(weights.speech),
     content |-> SumValues(weights.content),
     delivery |-> SumValues(weights.delivery)]

TotalScore(category_scores, w) ==
    RatAdd(RatAdd(RatAdd(Weighted(category_scores.posture.total, w.posture),
                         Weighted(category_scores.eye_contact.total, w.eye_contact)),
                  RatAdd(Weighted(category_scores.speech.total, w.speech),
                         Weighted(category_scores.content.total, w.content))),
           Weighted(category_scores.delivery.total, w.delivery))

\* Lines 79-91: the dictionary returned; total and breakdown in tenths
OverallScore(total_score, category_scores) ==
    [total |-> Round1(total_score),
     performance_level |-> _get_performance_level(total_score),
     category_scores |-> [c \in DOMAIN category_scores |->
                            [total |-> category_scores[c].total,
                             components |-> category_scores[c].components]],
     recommendations |-> _generate_recommendations(category_scores),
     breakdown |-> [c \in DOMAIN category_scores |->
                      Round1(category_scores[c].total)]]

\* The try block: [exc, ret]
ScoreOfCategories(category_scores) ==
    IF \E c \in DOMAIN category_scores : category_scores[c].exc # ""
    THEN [exc |-> category_scores[
                    CategoryOrder[CHOOSE i \in 1..Len(CategoryOrder) :
                       /\ category_scores[CategoryOrder[i]].exc # ""
                       /\ \A j \in 1..(i - 1) :
                             category_scores[CategoryOrder[j]].exc = ""]].exc,
          ret |-> EmptyDict]
    ELSE [exc |-> "",
          ret |-> OverallScore(TotalScore(category_scores, AppliedWeights),
                               category_scores)]

\* A handler that lets the exception through
ScoreOrRaise(r) ==
    [raised |-> r.exc, logged |-> "", ret |-> r.ret]

\* except Exception: log and return the zeroed score
ScoreOrEmpty(r) ==
    [raised |-> "", logged |-> r.exc,
     ret |-> IF r.exc # "" THEN _get_empty_score ELSE r.ret]

\* Returns [raised, logged, ret]
calculate_overall_score(posture_analysis, speech_analysis, topic_keywords) ==
    ScoreOrEmpty(ScoreOfCategories(
      [posture |-> _calculate_posture_score(posture_analysis),
       eye_contact |-> _calculate_eye_contact_score(posture_analysis),
       speech |-> _calculate_speech_scores(speech_analysis),
       content |-> _calculate_content_score(speech_analysis, topic_keywords),
       delivery |-> _calculate_delivery_score(speech_analysis)]))

---------------------------------------------------------------------------
(* utils/speech_analyzer.py: SpeechAnalyzer.                               *)
(* Times are whole hundredths of a second.  The strings that occur as      *)
(* words are those of the table Strings, which gives for each of them what *)
(* the string methods of the code return.  A transcript text is the        *)
(* sequence of its whitespace-separated words, Word(w, n, stop).           *)

\* A number of the analysis given in hundredths
Hundredths(v) == [t |-> "num", v |-> v, per |-> 100]

\* self.filler_words
filler_words ==
    {"um", "uh", "like", "you know", "actually", "basically", "literally", "so",
     "well", "okay", "right", "ah", "er", "just", "kind of", "sort of", "i mean",
     "you see", "anyway", "seriously", "honestly", "anyways", "alright"}

\* self.common_words
common_words ==
    {"the", "a", "an", "and", "or", "but", "in", "on", "at", "to", "for", "of",
     "with", "by", "is", "are", "was", "were", "be", "been", "being", "have",
     "has", "had", "do", "does", "did", "will", "would", "could", "should",
     "may", "might", "can", "this", "that", "these", "those", "i", "you", "he",
     "she", "it", "we", "they", "me", "him", "her", "us", "them"}

\* s.lower(), s.lower().strip('.,!?;'), len(s) and s[0].isupper() of a string
Str(lower, bare, len, upper) ==
    [lower |-> lower, bare |-> bare, len |-> len, upper |-> upper]

Strings ==
    ("go" :> Str("go", "go", 2, FALSE)) @@
    ("Go" :> Str("go", "go", 2, TRUE)) @@
    ("stop" :> Str("stop", "stop", 4, FALSE)) @@
    ("um" :> Str("um", "um", 2, FALSE)) @@
    ("Um," :> Str("um,", "um", 3, TRUE)) @@
    ("you" :> Str("you", "you", 3, FALSE)) @@
    ("know" :> Str("know", "know", 4, FALSE)) @@
    ("data" :> Str("data", "data", 4, FALSE)) @@
    ("Data." :> Str("data.", "data", 5, TRUE)) @@
    ("Data" :> Str("data", "data", 4, TRUE)) @@
    ("this" :> Str("this", "this", 4, FALSE))

\* An entry of the 'words' list of the transcription
TimedWord(word, start, end) == [word |-> word, start |-> start, end |-> end]

\* The transcription service's response with one channel and one alternative
Transcription(transcript, words) ==
    [results |->
       [channels |-> <<[alternatives |->
                          <<[transcript |-> transcript, words |-> words]>>]>>]]

\* transcript_data.get('results', {}).get('channels', []), then the first
\* alternative of the first channel: [exc, val], val = PyNone when there is
\* none; 'results' that is None or a string has no .get
FirstAlternative(transcript_data) ==
    IF "t" \in DOMAIN transcript_data.results
    THEN [exc |-> "AttributeError", val |-> PyNone]
    ELSE IF DictGet(transcript_data.results, "channels", <<>>) = <<>>
    THEN [exc |-> "", val |-> PyNone]
    ELSE IF DictGet(transcript_data.results.channels[1], "alternatives", <<>>) = <<>>
    THEN [exc |-> "", val |-> PyNone]
    ELSE [exc |-> "", val |-> transcript_data.results.channels[1].alternatives[1]]

\* Returns [logged, val]: the stripped text, "" on any failure
_extract_transcript_text(transcript_data) ==
    [logged |-> FirstAlternative(transcript_data).exc,
     val |-> IF FirstAlternative(transcript_data).val = PyNone THEN <<>>
             ELSE DictGet(FirstAlternative(transcript_data).val, "transcript", <<>>)]

\* Returns [logged, val]: the word entries, [] on any failure
_extract_words_with_timings(transcript_data) ==
    [logged |-> FirstAlternative(transcript_data).exc,
     val |-> IF FirstAlternative(transcript_data).val = PyNone THEN <<>>
             ELSE DictGet(FirstAlternative(transcript_data).val, "words", <<>>)]

\* sum(word['end'] - word['start'] for word in words)
RECURSIVE SpeakingTime(_)
SpeakingTime(words) ==
    IF words = <<>> THEN 0
    ELSE Head(words).end - Head(words).start + SpeakingTime(Tail(words))

\* round(word_count / duration * 60) if duration > 0 else 0
WordsPerMinute(word_count, duration) ==
    IF duration > 0 THEN PyRound(word_count * 6000, duration) ELSE 0

_calculate_basic_metrics(words) ==
    [word_count |-> Len(words),
     duration_seconds |->
        Hundredths(IF words = <<>> THEN 0 ELSE words[Len(words)].end - words[1].start),
     words_per_minute |->
        Num(10 * WordsPerMinute(Len(words),
              IF words = <<>> THEN 0 ELSE words[Len(words)].end - words[1].start)),
     speaking_time_seconds |-> Hundredths(SpeakingTime(words)),
     pause_time_seconds |->
        Hundredths((IF words = <<>> THEN 0 ELSE words[Len(words)].end - words[1].start)
                   - SpeakingTime(words))]

\* The members of a set of integers in ascending order
RECURSIVE Ascending(_)
Ascending(S) ==
    IF S = {} THEN <<>>
    ELSE <<CHOOSE i \in S : \A j \in S : i <= j>>
         \o Ascending(S \ {CHOOSE i \in S : \A j \in S : i <= j})

\* word_obj['word'].lower().strip('.,!?;')
Bare(word_obj) == Strings[word_obj.word].bare

\* The positions (from 1) of the words that are entries of the filler list
FillerPositions(words) ==
    {i \in 1..Len(words) : Bare(words[i]) \in filler_words}

FillerAnalysis(words, positions) ==
    [total_count |-> Cardinality(positions),
     percentage |-> Hundredths(IF words = <<>> THEN 0
                               ELSE PyRound(Cardinality(positions) * 10000, Len(words))),
     breakdown |-> [w \in {Bare(words[i]) : i \in positions} |->
                      Cardinality({i \in positions : Bare(words[i]) = w})],
     instances |-> [k \in 1..Cardinality(positions) |->
                      [word |-> Bare(words[Ascending(positions)[k]]),
                       timestamp |-> words[Ascending(positions)[k]].start,
                       position |-> Ascending(positions)[k] - 1]]]

_analyze_filler_words(words) == FillerAnalysis(words, FillerPositions(words))

\* The i (from 2) with words[i].start - words[i-1].end > 0.3
PausePositions(words) ==
    {i \in 2..Len(words) : words[i].start - words[i - 1].end > 30}

RECURSIVE SumOfPauses(_, _)
SumOfPauses(words, positions) ==
    IF positions = {} THEN 0
    ELSE words[CHOOSE i \in positions : TRUE].start
         - words[(CHOOSE i \in positions : TRUE) - 1].end
         + SumOfPauses(words, positions \ {CHOOSE i \in positions : TRUE})

PauseAnalysis(words, positions, total_pause_duration) ==
    [count |-> Cardinality(positions),
     total_duration |-> Hundredths(total_pause_duration),
     average_duration |->
        Hundredths(IF positions = {} THEN 0
                   ELSE PyRound(total_pause_duration, Cardinality(positions))),
     details |-> [k \in 1..Cardinality(positions) |->
                    [start |-> words[Ascending(positions)[k] - 1].end,
                     end |-> words[Ascending(positions)[k]].start,
                     duration |-> words[Ascending(positions)[k]].start
                                  - words[Ascending(positions)[k] - 1].end,
                     previous_word |-> words[Ascending(positions)[k] - 1].word,
                     next_word |-> words[Ascending(positions)[k]].word]]]

_analyze_pauses(words) ==
    PauseAnalysis(words, PausePositions(words), SumOfPauses(words, PausePositions(words)))

\* The words of more than 3 characters that are not common words
ContentPositions(words) ==
    {i \in 1..Len(words) :
       /\ Strings[words[i].word].len > 3
       /\ Strings[words[i].word].lower \notin common_words}

\* Counter(content_words)
WordFreq(words, positions) ==
    [w \in {Bare(words[i]) : i \in positions} |->
       Cardinality({i \in positions : Bare(words[i]) = w})]

\* The entries of a counter with count >= 3
RepeatedWords(word_freq) ==
    [w \in {x \in DOMAIN word_freq : word_freq[x] >= 3} |-> word_freq[w]]

\* The position at which a content word first occurs
FirstAt(words, positions, w) ==
    CHOOSE i \in positions :
       /\ Bare(words[i]) = w
       /\ \A j \in positions : Bare(words[j]) = w => i <= j

\* dict(Counter(d).most_common(n)): highest counts first, ties in dict order
MostCommon(words, positions, d, n) ==
    [w \in {x \in DOMAIN d :
              Cardinality({y \in DOMAIN d :
                 \/ d[y] > d[x]
                 \/ d[y] = d[x] /\ FirstAt(words, positions, y)
                                     < FirstAt(words, positions, x)}) < n} |-> d[w]]

\* A run that goes on whatever the silence between the repeats
RECURSIVE RunEndAnyGap(_, _, _)
RunEndAnyGap(words, current_word, j) ==
    IF j <= Len(words) /\ Strings[words[j].word].lower = current_word
    THEN RunEndAnyGap(words, current_word, j + 1)
    ELSE j

\* The inner while of _find_repetition_sequences: the first j at which the
\* run of current_word stops
RECURSIVE RunEnd(_, _, _)
RunEnd(words, current_word, j) ==
    IF /\ j <= Len(words)
       /\ Strings[words[j].word].lower = current_word
       /\ words[j].start - words[j - 1].end < 200
    THEN RunEnd(words, current_word, j + 1)
    ELSE j

RepetitionSequence(words, i, j) ==
    [word |-> Strings[words[i].word].lower,
     count |-> j - i,
     start_time |-> words[i].start,
     end_time |-> words[j - 1].end,
     duration |-> words[j - 1].end - words[i].start]

\* The outer while, from position i (from 1) with the sequences found so far
RECURSIVE FindSequencesFrom(_, _, _)
FindSequencesFrom(words, i, sequences) ==
    IF i >= Len(words) THEN sequences
    ELSE IF RunEnd(words, Strings[words[i].word].lower, i + 1) - i >= 2
    THEN FindSequencesFrom(words, RunEnd(words, Strings[words[i].word].lower, i + 1),
           Append(sequences,
                  RepetitionSequence(words, i,
                     RunEnd(words, Strings[words[i].word].lower, i + 1))))
    ELSE FindSequencesFrom(words, i + 1, sequences)

_find_repetition_sequences(words) == FindSequencesFrom(words, 1, <<>>)

_analyze_repetition(words) ==
    [repeated_words |-> RepeatedWords(WordFreq(words, ContentPositions(words))),
     top_repetitions |->
        MostCommon(words, ContentPositions(words),
                   RepeatedWords(WordFreq(words, ContentPositions(words))), 10),
     repetition_sequences |-> _find_repetition_sequences(words)]

\* The positions of the words of the text that begin a sentence of
\* text.split('.') without a capital letter
UncapitalisedSentences(text) ==
    {i \in 1..Len(text) :
       /\ i = 1 \/ text[i - 1].stop
       /\ ~Strings[text[i].w].upper}

\* An error's context and suggestion are given by the position at which its
\* sentence begins
_analyze_grammar(text) ==
    [count |-> Cardinality(UncapitalisedSentences(text)),
     details |-> [k \in 1..Cardinality(UncapitalisedSentences(text)) |->
                    [error |-> "Sentence should start with capital letter",
                     context |-> Ascending(UncapitalisedSentences(text))[k],
                     offset |-> 0,
                     category |-> "Capitalization"]]]

\* int(x / 10) for x in hundredths of a second: towards zero
WholeSegments(total_duration) ==
    IF total_duration >= 0 THEN total_duration \div 1000
    ELSE -((-total_duration) \div 1000)

\* The words wholly inside the 10-second segment seg (from 0)
SegmentWords(words, seg) ==
    {i \in 1..Len(words) :
       /\ words[i].start >= words[1].start + seg * 1000
       /\ words[i].end <= words[1].start + seg * 1000 + 1000}

\* round(len(seg_words) / (10 / 60)) is six times the number of words
PaceSegment(words, seg) ==
    [segment |-> seg,
     start_time |-> words[1].start + seg * 1000,
     end_time |-> words[1].start + seg * 1000 + 1000,
     wpm |-> 6 * Cardinality(SegmentWords(words, seg)),
     word_count |-> Cardinality(SegmentWords(words, seg))]

PaceSegments(words) ==
    [k \in 1..(WholeSegments(words[Len(words)].end - words[1].start) + 1) |->
       PaceSegment(words, k - 1)]

\* The largest r with r * r <= x, for lo * lo <= x < hi * hi
RECURSIVE IsqrtIn(_, _, _)
IsqrtIn(x, lo, hi) ==
    IF hi - lo <= 1 THEN lo
    ELSE IF ((lo + hi) \div 2) * ((lo + hi) \div 2) <= x
    THEN IsqrtIn(x, (lo + hi) \div 2, hi)
    ELSE IsqrtIn(x, lo, (lo + hi) \div 2)

\* 46340 is the largest integer whose square is a 32-bit integer
Isqrt(x) == IsqrtIn(x, 0, IF x < 46340 THEN x + 1 ELSE 46340)

RECURSIVE SumWpm(_, _)
SumWpm(segments, power) ==
    IF segments = <<>> THEN 0
    ELSE (IF power = 2 THEN Head(segments).wpm * Head(segments).wpm
          ELSE Head(segments).wpm)
         + SumWpm(Tail(segments), power)

\* round(np.std(values), 2) in hundredths, for n values of sum s and sum of
\* squares s2: the variance is (n * s2 - s * s) / (n * n)
RoundedStd(n, s, s2) ==
    IF n = 0 THEN 0
    ELSE (Isqrt((40000 * (n * s2 - s * s)) \div (n * n)) + 1) \div 2

\* np.std over the segments with wpm > 0; those with wpm 0 add nothing to
\* the sums
PaceVariation(segments) ==
    RoundedStd(Cardinality({k \in 1..Len(segments) : segments[k].wpm > 0}),
               SumWpm(segments, 1), SumWpm(segments, 2))

_analyze_speech_pace(words) ==
    IF Len(words) < 2
    THEN [pace_variation |-> Hundredths(0), pace_segments |-> <<>>]
    ELSE [pace_variation |-> Hundredths(PaceVariation(PaceSegments(words))),
          pace_segments |-> PaceSegments(words),
          recommended_pace_range |-> <<140, 160>>]

\* SpeechAnalyzer._get_empty_analysis
EmptySpeechAnalysis ==
    [word_count |-> 0,
     duration_seconds |-> Hundredths(0),
     words_per_minute |-> Num(0),
     speaking_time_seconds |-> Hundredths(0),
     pause_time_seconds |-> Hundredths(0),
     filler_words |-> [total_count |-> 0, percentage |-> Hundredths(0),
                       breakdown |-> EmptyDict, instances |-> <<>>],
     pauses |-> [count |-> 0, total_duration |-> Hundredths(0),
                 average_duration |-> Hundredths(0), details |-> <<>>],
     repetition |-> [repeated_words |-> EmptyDict, top_repetitions |-> EmptyDict,
                     repetition_sequences |-> <<>>],
     grammar_errors |-> [count |-> 0, details |-> <<>>],
     pace_analysis |-> [pace_variation |-> Hundredths(0), pace_segments |-> <<>>,
                        recommended_pace_range |-> <<140, 160>>],
     transcript |-> <<>>,
     word_timings |-> <<>>]

\* Lines 54-70: the analyses of a text that is not empty
FullAnalysis(transcript_text, words) ==
    [word_count |-> _calculate_basic_metrics(words).word_count,
     duration_seconds |-> _calculate_basic_metrics(words).duration_seconds,
     words_per_minute |-> _calculate_basic_metrics(words).words_per_minute,
     speaking_time_seconds |-> _calculate_basic_metrics(words).speaking_time_seconds,
     pause_time_seconds |-> _calculate_basic_metrics(words).pause_time_seconds,
     filler_words |-> _analyze_filler_words(words),
     pauses |-> _analyze_pauses(words),
     repetition |-> _analyze_repetition(words),
     grammar_errors |-> _analyze_grammar(transcript_text),
     pace_analysis |-> _analyze_speech_pace(words),
     transcript |-> transcript_text,
     word_timings |-> words]

\* A word entry without 'start' or 'end' makes the basic metrics raise
Untimed(words) ==
    \E i \in 1..Len(words) : {"start", "end"} \ DOMAIN words[i] # {}

\* `not transcript_data or 'results' not in transcript_data`: true of None,
\* of a string or list without 'results' and of a mapping without the key
NoResults(transcript_data) ==
    \/ "t" \in DOMAIN transcript_data
    \/ DOMAIN transcript_data = {}
    \/ "results" \notin DOMAIN transcript_data

\* An analyzer that takes the word entries for the transcript
AnalysisOfWords(text, words) ==
    IF Untimed(words.val) THEN [logged |-> "KeyError", ret |-> EmptySpeechAnalysis]
    ELSE [logged |-> "", ret |-> FullAnalysis(text.val, words.val)]

\* Lines 42-78 after the first test: [logged, ret]
AnalysisOf(text, words) ==
    IF text.val = <<>> THEN [logged |-> text.logged, ret |-> EmptySpeechAnalysis]
    ELSE IF Untimed(words.val) THEN [logged |-> "KeyError", ret |-> EmptySpeechAnalysis]
    ELSE [logged |-> "", ret |-> FullAnalysis(text.val, words.val)]

\* Returns [raised, logged, ret]
analyze_transcript(transcript_data) ==
    IF NoResults(transcript_data)
    THEN [raised |-> "", logged |-> "", ret |-> EmptySpeechAnalysis]
    ELSE [raised |-> "",
          logged |-> AnalysisOf(_extract_transcript_text(transcript_data),
                                _extract_words_with_timings(transcript_data)).logged,
          ret |-> AnalysisOf(_extract_transcript_text(transcript_data),
                             _extract_words_with_timings(transcript_data)).ret]

---------------------------------------------------------------------------
(* utils/posture_analyzer.py: PostureAnalyzer.process_posture_data.        *)
(* A sample is a mapping with a timestamp in tenths of a second and a      *)
(* score in tenths of a point; the averages and percentages of the result  *)
(* are Num(v), v in tenths.                                                *)

Sample(timestamp, score) == [timestamp |-> Num(timestamp), score |-> Num(score)]

\* A JSON list of samples (the value may also be null)
Samples(items) == [t |-> "list", items |-> items]

\* PostureAnalyzer._get_empty_analysis
EmptyPostureAnalysis ==
    [summary |->
       [average_posture_score |-> Num(650),
        average_eye_contact_score |-> Num(600),
        posture_breakdown |-> [good_percentage |-> Num(400),
                               okay_percentage |-> Num(450),
                               bad_percentage |-> Num(150)],
        eye_contact_breakdown |-> [good_percentage |-> Num(350),
                                   moderate_percentage |-> Num(500),
                                   poor_percentage |-> Num(150)]],
     second_by_second |-> EmptyDict,
     recording_time |-> 0]

\* raw_data.get(key, []) if isinstance(raw_data, dict) else []
StreamOf(raw_data, key) ==
    IF "t" \in DOMAIN raw_data THEN Samples(<<>>)
    ELSE DictGet(raw_data, key, Samples(<<>>))

\* `not stream`: None and the empty list
NoSamples(stream) == stream.t = "none" \/ stream.items = <<>>

\* isinstance(entry, dict)
IsMapping(entry) == "t" \notin DOMAIN entry

\* int(float(timestamp)) of a timestamp in tenths of a second
SecondOf(timestamp) ==
    IF timestamp >= 0 THEN timestamp \div 10 ELSE -((-timestamp) \div 10)

\* What handling one entry raises: float() of a timestamp that is no number,
\* then the comparison of a score that is no number with 0
EntryFailure(entry) ==
    IF ~IsMapping(entry) THEN ""
    ELSE IF DictGet(entry, "timestamp", Num(0)).t # "num" THEN "ValueError"
    ELSE IF DictGet(entry, "score", Num(0)).t # "num" THEN "TypeError"
    ELSE ""

\* The first exception a for loop over the stream raises; None is not iterable
RECURSIVE FirstFailure(_)
FirstFailure(items) ==
    IF items = <<>> THEN ""
    ELSE IF EntryFailure(Head(items)) # "" THEN EntryFailure(Head(items))
    ELSE FirstFailure(Tail(items))

StreamFailure(stream) ==
    IF stream.t = "none" THEN "TypeError" ELSE FirstFailure(stream.items)

\* The seconds the mappings of a stream fall in
SecondsOf(items) ==
    {SecondOf(DictGet(items[i], "timestamp", Num(0)).v) :
       i \in {j \in 1..Len(items) : IsMapping(items[j])}}

\* The positive scores of the samples of the given seconds, in order
RECURSIVE PositiveScores(_, _)
PositiveScores(items, seconds) ==
    IF items = <<>> THEN <<>>
    ELSE (IF /\ IsMapping(Head(items))
             /\ SecondOf(DictGet(Head(items), "timestamp", Num(0)).v) \in seconds
             /\ DictGet(Head(items), "score", Num(0)).v > 0
          THEN <<DictGet(Head(items), "score", Num(0)).v>>
          ELSE <<>>)
         \o PositiveScores(Tail(items), seconds)

\* second_by_second after the two loops and the update of the sample counts
SecondBySecond(posture_list, eye_contact_list) ==
    [s \in SecondsOf(posture_list) \cup SecondsOf(eye_contact_list) |->
       [posture_scores |-> PositiveScores(posture_list, {s}),
        eye_contact_scores |-> PositiveScores(eye_contact_list, {s}),
        samples |-> Max(Len(PositiveScores(posture_list, {s})),
                        Len(PositiveScores(eye_contact_list, {s})))]]

\* np.mean of scores in tenths, as a fraction of a point
Mean(scores) == Rat(SeqSum(scores), 10 * Len(scores))

\* round(np.mean(scores), 1) if scores else 0
RoundedMean(scores) == IF scores = <<>> THEN Num(0) ELSE Num(Round1(Mean(scores)))

\* The category a second's average posture score puts it in
PostureSecond(avg_second_posture) ==
    IF RatLe(Whole(80), avg_second_posture) THEN "good"
    ELSE IF RatLe(Whole(60), avg_second_posture) THEN "okay"
    ELSE "bad"

\* The category a second's average eye-contact score puts it in
EyeContactSecond(avg_second_eye) ==
    IF RatLe(Whole(75), avg_second_eye) THEN "good"
    ELSE IF RatLe(Whole(50), avg_second_eye) THEN "moderate"
    ELSE "poor"

\* posture_categories[category]: the seconds with posture scores counted in it
PostureSeconds(second_by_second, category) ==
    Cardinality({s \in DOMAIN second_by_second :
       /\ second_by_second[s].posture_scores # <<>>
       /\ PostureSecond(Mean(second_by_second[s].posture_scores)) = category})

\* eye_contact_categories[category]
EyeContactSeconds(second_by_second, category) ==
    Cardinality({s \in DOMAIN second_by_second :
       /\ second_by_second[s].eye_contact_scores # <<>>
       /\ EyeContactSecond(Mean(second_by_second[s].eye_contact_scores)) = category})

\* round(count / total_seconds * 100, 1) if total_seconds > 0 else 0
Percentage(count, total_seconds) ==
    IF total_seconds > 0 THEN Num(Round1(Rat(count * 100, total_seconds))) ELSE Num(0)

_calculate_summary_stats(posture_scores, eye_contact_scores, second_by_second) ==
    [average_posture_score |-> RoundedMean(posture_scores),
     average_eye_contact_score |-> RoundedMean(eye_contact_scores),
     posture_breakdown |->
       [good_percentage |-> Percentage(PostureSeconds(second_by_second, "good"),
                                       Cardinality(DOMAIN second_by_second)),
        okay_percentage |-> Percentage(PostureSeconds(second_by_second, "okay"),
                                       Cardinality(DOMAIN second_by_second)),
        bad_percentage |-> Percentage(PostureSeconds(second_by_second, "bad"),
                                      Cardinality(DOMAIN second_by_second))],
     eye_contact_breakdown |->
       [good_percentage |-> Percentage(EyeContactSeconds(second_by_second, "good"),
                                       Cardinality(DOMAIN second_by_second)),
        moderate_percentage |-> Percentage(EyeContactSeconds(second_by_second, "moderate"),
                                           Cardinality(DOMAIN second_by_second)),
        poor_percentage |-> Percentage(EyeContactSeconds(second_by_second, "poor"),
                                       Cardinality(DOMAIN second_by_second))],
     total_recording_seconds |-> Cardinality(DOMAIN second_by_second)]

\* The try block for streams that can be iterated
ProcessedStreams(posture_list, eye_contact_list) ==
    [summary |-> _calculate_summary_stats(
                   PositiveScores(posture_list, SecondsOf(posture_list)),
                   PositiveScores(eye_contact_list, SecondsOf(eye_contact_list)),
                   SecondBySecond(posture_list, eye_contact_list)),
     second_by_second |-> SecondBySecond(posture_list, eye_contact_list),
     recording_time |-> Cardinality(DOMAIN SecondBySecond(posture_list, eye_contact_list))]

\* The exception the try block raises, "" if none
ProcessingFailure(posture_list, eye_contact_list) ==
    IF StreamFailure(posture_list) # "" THEN StreamFailure(posture_list)
    ELSE StreamFailure(eye_contact_list)

\* An aggregator that answers a failure with the statistics of no samples
ProcessOrZero(posture_list, eye_contact_list) ==
    IF NoSamples(posture_list) /\ NoSamples(eye_contact_list)
    THEN [raised |-> "", logged |-> "", ret |-> EmptyPostureAnalysis]
    ELSE IF ProcessingFailure(posture_list, eye_contact_list) # ""
    THEN [raised |-> "", logged |-> ProcessingFailure(posture_list, eye_contact_list),
          ret |-> ProcessedStreams(<<>>, <<>>)]
    ELSE [raised |-> "", logged |-> "",
          ret |-> ProcessedStreams(posture_list.items, eye_contact_list.items)]

\* Lines 193-263 for the two streams: [raised, logged, ret]
ProcessStreams(posture_list, eye_contact_list) ==
    IF NoSamples(posture_list) /\ NoSamples(eye_contact_list)
    THEN [raised |-> "", logged |-> "", ret |-> EmptyPostureAnalysis]
    ELSE IF ProcessingFailure(posture_list, eye_contact_list) # ""
    THEN [raised |-> "", logged |-> ProcessingFailure(posture_list, eye_contact_list),
          ret |-> EmptyPostureAnalysis]
    ELSE [raised |-> "", logged |-> "",
          ret |-> ProcessedStreams(posture_list.items, eye_contact_list.items)]

\* Returns [raised, logged, ret]
process_posture_data(raw_data) ==
    ProcessStreams(StreamOf(raw_data, "posture"), StreamOf(raw_data, "eye_contact"))

---------------------------------------------------------------------------
(* The inputs the handlers are driven with *)

FlatPosture(ps, es) ==
    [t |-> "dict", posture_score |-> ps, eye_contact_score |-> es,
     posture |-> Absent, eye_contact |-> Absent]

NestedPosture(p, e) ==
    [t |-> "dict", posture_score |-> Absent, eye_contact_score |-> Absent,
     posture |-> p, eye_contact |-> e]

ScoreDict(x) == [t |-> "dict", score |-> x]

ZeroSample == FlatPosture(Num(0), Num(0))

GoodSample == FlatPosture(Num(900), Num(900))

PoorSample == FlatPosture(Num(300), Num(1200))

NestedSample == NestedPosture(ScoreDict(Num(700)), ScoreDict(Num(5)))

\* 'posture' is a string: AttributeError before anything is stored
BadEntrySample == NestedPosture(PyStr, Absent)

\* a positive posture score and a non-numeric eye-contact score
BadScoreSample == FlatPosture(Num(850), PyStr)

\* the posture score is null (JSON has no NaN) beside a positive eye-contact
\* score
NullScoreSample == FlatPosture(PyNone, Num(900))

PostureInputs ==
    {PyNone, PyList, ZeroSample, GoodSample, PoorSample, NestedSample,
     BadEntrySample, BadScoreSample, NullScoreSample}

AudioInputs == {PyNone, [t |-> "str", v |-> ""], [t |-> "str", v |-> "UklGRg=="]}

\* np.random.random() < 0.05 is drawn only when an audio chunk is analysed
RandomOutcomes(audio_chunk) == IF Truthy(audio_chunk) THEN BOOLEAN ELSE {FALSE}

---------------------------------------------------------------------------
(* Bookkeeping of the run, used to state the properties *)

\* The number a posture sample carries for one score: the flat key when the
\* sample has it, else the score of the nested entry; 0 when the sample holds
\* no number there
FieldScore(pd, flat, nested) ==
    IF pd.t # "dict" THEN 0
    ELSE IF pd[flat].t # "absent"
    THEN (IF pd[flat].t = "num" THEN pd[flat].v ELSE 0)
    ELSE IF pd[nested].t = "dict" /\ pd[nested].score.t = "num"
    THEN pd[nested].score.v
    ELSE 0

PostureSampleOf(pd) == FieldScore(pd, "posture_score", "posture")

EyeSampleOf(pd) == FieldScore(pd, "eye_contact_score", "eye_contact")

NoneReceived == [posture |-> <<>>, eye_contact |-> <<>>]

AppendIfPositive(s, x) == IF x > 0 THEN Append(s, x) ELSE s

Receive(rcv, pd) ==
    [posture |-> AppendIfPositive(rcv.posture, PostureSampleOf(pd)),
     eye_contact |-> AppendIfPositive(rcv.eye_contact, EyeSampleOf(pd))]

\* A call and its outcome: before tells whether id was Active when it was made,
\* raised is the exception that reached the caller, logged the one the method
\* caught and logged, ret the value returned
Call(op, id, before, raised, logged, ret) ==
    [op |-> op, id |-> id, before |-> before, raised |-> raised,
     logged |-> logged, ret |-> ret]

Reg == Registry(active_sessions, feedback_history)

SetReg(reg) ==
    /\ active_sessions' = reg.active_sessions
    /\ feedback_history' = reg.feedback_history

Active(id) == id \in DOMAIN active_sessions

---------------------------------------------------------------------------
(* The methods of the RealtimeFeedback object, called directly *)

StartSession(id) ==
    /\ SetReg(start_session(Reg, id, now))
    /\ last' = Call("start_session", id, Active(id), "", "", PyNone)
    /\ received' = [received EXCEPT ![id] = NoneReceived]
    /\ solo' = [solo EXCEPT ![id] = start_session(@, id, now)]
    /\ UNCHANGED <<now, nframes, args>>

\* r is what end_session returned: [exc, reg]
Ended(id, r) ==
    /\ SetReg(r.reg)
    /\ last' = Call("end_session", id, Active(id), r.exc, "", PyNone)

EndSession(id) ==
    /\ Ended(id, end_session(Reg, id))
    /\ solo' = [solo EXCEPT ![id] = end_session(@, id).reg]
    /\ UNCHANGED <<now, nframes, received, args>>

\* r is what analyze_frame returned: [raised, logged, reg, ret]
Returned(id, r) ==
    /\ SetReg(r.reg)
    /\ last' = Call("analyze_frame", id, Active(id), r.raised, r.logged, r.ret)

AnalyzeFrame(id, posture_data, audio_chunk, filler_hit) ==
    /\ Active(id) => nframes < MaxFrames
    /\ Returned(id, analyze_frame(Reg, id, posture_data, audio_chunk, now,
                                  filler_hit))
    /\ nframes' = IF Active(id) THEN nframes + 1 ELSE nframes
    /\ received' = IF Active(id)
                   THEN [received EXCEPT ![id] = Receive(@, posture_data)]
                   ELSE received
    /\ solo' = [solo EXCEPT ![id] =
                  analyze_frame(@, id, posture_data, audio_chunk, now,
                                filler_hit).reg]
    /\ UNCHANGED <<now, args>>

---------------------------------------------------------------------------
(* app.py: the Flask handlers that use realtime_feedback.                  *)
(* cookie is session.get('session_id'): "" when the cookie holds none.     *)

Response(success, body) == [success |-> success, body |-> body]

Answer(op, id, response) == Call(op, id, Active(id), "", "", response)

StartRecording(cookie) ==
    IF cookie = ""
    THEN /\ last' = Answer("start_recording", cookie,
                           Response(FALSE, [error |-> "No active session"]))
         /\ UNCHANGED <<active_sessions, feedback_history, now, nframes,
                        received, solo, args>>
    ELSE /\ SetReg(start_session(Reg, cookie, now))
         /\ last' = Answer("start_recording", cookie,
                           Response(TRUE, [session_id |-> cookie, timestamp |-> now]))
         /\ received' = [received EXCEPT ![cookie] = NoneReceived]
         /\ solo' = [solo EXCEPT ![cookie] = start_session(@, cookie, now)]
         /\ UNCHANGED <<now, nframes, args>>

\* The feedback of the handler's own except branch (it carries no timestamp)
HandlerEmptyFeedback ==
    [posture |-> [score |-> 0, messages |-> EmptyDict],
     speech |-> [messages |-> EmptyDict],
     suggestions |-> <<>>,
     overall_score |-> 0,
     alert_level |-> "unknown"]

\* Lines 194-196: ensure the session exists in realtime feedback
EnsureSession(reg, id, t) ==
    IF id \notin DOMAIN reg.active_sessions THEN start_session(reg, id, t) ELSE reg

\* Lines 205-222: r is what analyze_frame returned
FeedbackResponse(r) ==
    IF r.raised # ""
    THEN Response(FALSE, [error |-> r.raised, feedback |-> HandlerEmptyFeedback])
    ELSE Response(TRUE, [feedback |-> r.ret])

Analysed(session_id, r) ==
    /\ SetReg(r.reg)
    /\ last' = Call("get_realtime_feedback", session_id, Active(session_id), "",
                    r.logged, FeedbackResponse(r))

\* has_json: request.get_json() returned a mapping (None.get raises otherwise);
\* session_id is data.get('session_id'), "" when missing or empty
GetRealtimeFeedback(has_json, session_id, posture_data, audio_chunk, filler_hit) ==
    IF ~has_json
    THEN /\ last' = Answer("get_realtime_feedback", session_id,
                           Response(FALSE, [error |-> "AttributeError",
                                            feedback |-> HandlerEmptyFeedback]))
         /\ UNCHANGED <<active_sessions, feedback_history, now, nframes,
                        received, solo, args>>
    ELSE IF session_id = ""
    THEN /\ last' = Answer("get_realtime_feedback", session_id,
                           Response(FALSE, [error |-> "No session ID"]))
         /\ UNCHANGED <<active_sessions, feedback_history, now, nframes,
                        received, solo, args>>
    ELSE /\ nframes < MaxFrames
         /\ Analysed(session_id,
                analyze_frame(EnsureSession(Reg, session_id, now), session_id,
                              posture_data, audio_chunk, now, filler_hit))
         /\ nframes' = nframes + 1
         /\ received' = [received EXCEPT ![session_id] =
                           Receive(IF Active(session_id) THEN @ ELSE NoneReceived,
                                   posture_data)]
         /\ solo' = [solo EXCEPT ![session_id] =
                       analyze_frame(EnsureSession(@, session_id, now), session_id,
                                     posture_data, audio_chunk, now, filler_hit).reg]
         /\ UNCHANGED <<now, args>>

\* Lines 227-236 and 344-353 of save_recording
SaveResponse(cookie, has_video, pipeline_ok) ==
    IF cookie = "" THEN Response(FALSE, [error |-> "No active session"])
    ELSE IF ~has_video THEN Response(FALSE, [error |-> "No video data"])
    ELSE IF ~pipeline_ok THEN Response(FALSE, [error |-> "Exception"])
    ELSE Response(TRUE, [session_id |-> cookie,
                         message |-> "Recording processed successfully"])

\* has_video: request.files holds 'video'; pipeline_ok: storage, conversion,
\* transcription, scoring and the report's save all returned.  No line of
\* the handler uses realtime_feedback.
SaveRecording(cookie, has_video, pipeline_ok) ==
    /\ last' = Answer("save_recording", cookie,
                      SaveResponse(cookie, has_video, pipeline_ok))
    /\ UNCHANGED <<active_sessions, feedback_history, now, nframes, received, solo, args>>

\* time passes
Tick ==
    /\ now < MaxTime
    /\ now' = now + 1
    /\ UNCHANGED <<active_sessions, feedback_history, last, nframes, received, solo, args>>

---------------------------------------------------------------------------
(* The service object driven directly, one session id *)

Init ==
    /\ active_sessions = EmptyDict
    /\ feedback_history = EmptyDict
    /\ now = 0
    /\ last = Call("__init__", "", FALSE, "", "", PyNone)
    /\ nframes = 0
    /\ received = [id \in AllIds |-> NoneReceived]
    /\ solo = [id \in AllIds |-> EmptyRegistry]
    /\ args = PyNone

Next ==
    \/ \E id \in Ids : StartSession(id)
    \/ \E id \in Ids : EndSession(id)
    \/ \E id \in Ids, pd \in PostureInputs, ac \in AudioInputs :
         \E hit \in RandomOutcomes(ac) : AnalyzeFrame(id, pd, ac, hit)
    \/ Tick

Spec == Init /\ [][Next]_vars

---------------------------------------------------------------------------
(* The service object driven for two session ids, calls interleaved *)

PairPostureInputs == {ZeroSample, GoodSample, BadScoreSample}

PairAudioInputs == {PyNone, [t |-> "str", v |-> "UklGRg=="]}

NextPair ==
    \/ \E id \in AllIds : StartSession(id)
    \/ \E id \in AllIds : EndSession(id)
    \/ \E id \in AllIds, pd \in PairPostureInputs, ac \in PairAudioInputs :
         \E hit \in RandomOutcomes(ac) : AnalyzeFrame(id, pd, ac, hit)
    \/ Tick

SpecPair == Init /\ [][NextPair]_vars

---------------------------------------------------------------------------
(* A session that has been running for a while: the run starts after      *)
(* start_session and Prefill frames, each carrying two positive scores     *)
(* that no other frame carries.                                            *)

Prefill == 600

PrefillSample(i) == FlatPosture(Num(i), Num(1000 - i))

\* The registry after the frames lo..hi have been analysed, starting from reg
\* (the range is halved, and reg is looked at first, so that the evaluation
\* does not nest hi - lo deep)
RECURSIVE PrefillFrames(_, _, _)
PrefillFrames(reg, lo, hi) ==
    IF "s1" \notin DOMAIN reg.active_sessions THEN reg
    ELSE IF lo = hi
    THEN analyze_frame(reg, "s1", PrefillSample(lo), PyNone, 0, FALSE).reg
    ELSE PrefillFrames(PrefillFrames(reg, lo, (lo + hi) \div 2),
                       (lo + hi) \div 2 + 1, hi)

\* What the last of those analyze_frame calls returned
Prefilled(n) ==
    analyze_frame(PrefillFrames(start_session(EmptyRegistry, "s1", 0), 1, n - 1),
                  "s1", PrefillSample(n), PyNone, 0, FALSE)

\* The scores those frames carried: all of them are positive
PrefillReceived(n) ==
    [posture |-> [i \in 1..n |-> PostureSampleOf(PrefillSample(i))],
     eye_contact |-> [i \in 1..n |-> EyeSampleOf(PrefillSample(i))]]

InitFrom(r, rcv) ==
    /\ active_sessions = r.reg.active_sessions
    /\ feedback_history = r.reg.feedback_history
    /\ now = 0
    /\ last = Call("analyze_frame", "s1", TRUE, r.raised, r.logged, r.ret)
    /\ nframes = 0
    /\ received = [id \in AllIds |-> IF id = "s1" THEN rcv ELSE NoneReceived]
    /\ solo = [id \in AllIds |-> IF id = "s1" THEN r.reg ELSE EmptyRegistry]
    /\ args = PyNone

InitLong == InitFrom(Prefilled(Prefill), PrefillReceived(Prefill))

LongPostureInputs ==
    {ZeroSample, GoodSample, PoorSample, NestedSample, BadScoreSample,
     NullScoreSample}

NextLong ==
    \/ \E id \in Ids : StartSession(id)
    \/ \E id \in Ids : EndSession(id)
    \/ \E id \in Ids, pd \in LongPostureInputs : AnalyzeFrame(id, pd, PyNone, FALSE)
    \/ Tick

SpecLong == InitLong /\ [][NextLong]_vars

---------------------------------------------------------------------------
(* The web application: one browser session driving the handlers *)

AppPostureInputs == {PyNone, ZeroSample, GoodSample, BadScoreSample}

AppAudioInputs == {PyNone, [t |-> "str", v |-> "UklGRg=="]}

NextApp ==
    \/ \E cookie \in Ids \cup {""} : StartRecording(cookie)
    \/ \E has_json \in BOOLEAN :
         \E id \in (IF has_json THEN Ids \cup {""} ELSE {""}) :
           \E pd \in (IF id # "" THEN AppPostureInputs ELSE {PyNone}),
              ac \in (IF id # "" THEN AppAudioInputs ELSE {PyNone}) :
             \E hit \in RandomOutcomes(ac) :
               GetRealtimeFeedback(has_json, id, pd, ac, hit)
    \/ \E cookie \in Ids \cup {""}, has_video \in BOOLEAN, pipeline_ok \in BOOLEAN :
         SaveRecording(cookie, has_video, pipeline_ok)
    \/ Tick

SpecApp == Init /\ [][NextApp]_vars

\* The handlers keep being served for as long as requests can arrive
SpecAppLive == Init /\ [][NextApp]_vars /\ WF_vars(NextApp)

---------------------------------------------------------------------------
(* The scoring engine called once with the analyses of a recording *)

PostureAnalysis(posture, posture_good, eye_contact, eye_contact_good) ==
    [summary |->
       [average_posture_score |-> Num(posture),
        posture_breakdown |-> [good_percentage |-> Num(posture_good)],
        average_eye_contact_score |-> Num(eye_contact),
        eye_contact_breakdown |-> [good_percentage |-> Num(eye_contact_good)]]]

PostureAnalyses ==
    {PyNone,
     PostureAnalysis(900, 375, 850, 500),
     PostureAnalysis(652, 200, 601, 300),
     PostureAnalysis(800, 375, 760, 500),
     PostureAnalysis(1400, 1000, 1200, 1000),
     PostureAnalysis(-200, 0, 0, 0),
     [summary |-> PyStr]}

\* "ai data ai data ai data ai data ai data"
ShortTranscript ==
    [i \in 1..10 |-> IF i % 2 = 1 THEN Word("ai", 2, FALSE) ELSE Word("data", 4, FALSE)]

Vocabulary ==
    <<Word("we", 2, FALSE), Word("learn", 5, FALSE), Word("from", 4, FALSE),
      Word("the", 3, FALSE), Word("database", 8, FALSE), Word("models", 6, FALSE),
      Word("cloud", 5, FALSE)>>

\* Three sentences of twenty words
LongTranscript ==
    [i \in 1..60 |-> [Vocabulary[((i - 1) % 7) + 1] EXCEPT !.stop = (i % 20 = 0)]]

SpeechAnalysis(wpm, fillers, duration, pause, repeated, errors, transcript, variation) ==
    [words_per_minute |-> Num(wpm),
     filler_words |-> [total_count |-> fillers],
     duration_seconds |-> Num(duration),
     pauses |-> [total_duration |-> Num(pause)],
     repetition |-> [repeated_words |-> repeated],
     grammar_errors |-> [count |-> errors],
     word_count |-> Len(transcript),
     transcript |-> transcript,
     pace_analysis |-> [pace_variation |-> Num(variation)]]

SpeechAnalyses ==
    {PyNone,
     SpeechAnalysis(0, 0, 0, 0, EmptyDict, 0, <<>>, 0),
     SpeechAnalysis(1500, 0, 600, 120, [ai |-> 21], 1, ShortTranscript, 20),
     SpeechAnalysis(1320, 4, 270, 100, [the |-> 3, we |-> 4], 1, LongTranscript, 35),
     SpeechAnalysis(1500, 4, 270, 100, [the |-> 3, we |-> 4], 1, LongTranscript, 30),
     SpeechAnalysis(2400, 9, 150, 90, EmptyDict, 0, LongTranscript, -50),
     PyStr}

KeywordLists ==
    {PyNone, Keywords(<<>>), Keywords(<<"ai", "data">>),
     Keywords(<<"ai", "cloud", "robot">>), Keywords(<<"data", "cloud", "robot">>)}

ScoreArgs ==
    [posture_analysis : PostureAnalyses,
     speech_analysis : SpeechAnalyses,
     topic_keywords : KeywordLists]

Calculated(r) ==
    last' = Call("calculate_overall_score", "", FALSE, r.raised, r.logged, r.ret)

CalculateOverallScore ==
    /\ Calculated(calculate_overall_score(args.posture_analysis, args.speech_analysis,
                                          args.topic_keywords))
    /\ UNCHANGED <<active_sessions, feedback_history, now, nframes, received, solo,
                   args>>

InitScore ==
    /\ active_sessions = EmptyDict
    /\ feedback_history = EmptyDict
    /\ now = 0
    /\ last = Call("__init__", "", FALSE, "", "", PyNone)
    /\ nframes = 0
    /\ received = [id \in AllIds |-> NoneReceived]
    /\ solo = [id \in AllIds |-> EmptyRegistry]
    /\ args \in ScoreArgs

NextScore == CalculateOverallScore

SpecScore == InitScore /\ [][NextScore]_vars

---------------------------------------------------------------------------
(* The speech analyzer called with a transcription, and the scoring engine *)
(* called with the analysis it returned (app.py, save_recording)           *)

MaxWords == 3

SpokenWords == {"go", "Go", "stop", "um"}

\* Every word lasts half a second
WordLength == 50

\* The silence before a word, in hundredths of a second
Gaps == {50, 200, 950}

\* The word lists that are `words` followed by one more word
OneMoreWord(words) ==
    {Append(words, TimedWord(w, start, start + WordLength)) :
       w \in SpokenWords,
       start \in {IF words = <<>> THEN 0 ELSE words[Len(words)].end + g : g \in Gaps}}

\* The word lists of exactly n words
RECURSIVE WordListsOf(_)
WordListsOf(n) ==
    IF n = 0 THEN {<<>>}
    ELSE UNION {OneMoreWord(words) : words \in WordListsOf(n - 1)}

WordLists == UNION {WordListsOf(n) : n \in 0..MaxWords}

\* "", "Go go. stop." and "um Data."
Texts ==
    {<<>>,
     <<Word("Go", 2, FALSE), Word("go", 2, TRUE), Word("stop", 4, TRUE)>>,
     <<Word("um", 2, FALSE), Word("Data", 4, TRUE)>>}

\* What the transcription step hands over when it has no usable result
BrokenTranscriptions ==
    {PyNone, EmptyDict, PyStr, [error |-> PyStr], [results |-> EmptyDict],
     [results |-> PyNone], [results |-> [channels |-> <<>>]],
     [results |-> [channels |-> <<[alternatives |-> <<>>]>>]],
     Transcription(<<Word("Go", 2, FALSE)>>, <<[word |-> "Go"]>>)}

TranscriptInputs ==
    BrokenTranscriptions
    \cup {Transcription(text, words) : text \in Texts, words \in WordLists}

TranscriptArgs ==
    [transcript_data : TranscriptInputs,
     posture_analysis : {PostureAnalysis(900, 375, 850, 500)},
     topic_keywords : {PyNone, Keywords(<<"go", "data">>)}]

AnalyzeTranscript ==
    /\ last.op = "__init__"
    /\ last' = Call("analyze_transcript", "", FALSE,
                    analyze_transcript(args.transcript_data).raised,
                    analyze_transcript(args.transcript_data).logged,
                    analyze_transcript(args.transcript_data).ret)
    /\ UNCHANGED <<active_sessions, feedback_history, now, nframes, received, solo,
                   args>>

\* save_recording: the analysis goes to the scoring engine as it is
ScoreTranscript ==
    /\ last.op = "analyze_transcript"
    /\ last' = Call("calculate_overall_score", "", FALSE,
                    calculate_overall_score(args.posture_analysis, last.ret,
                                            args.topic_keywords).raised,
                    calculate_overall_score(args.posture_analysis, last.ret,
                                            args.topic_keywords).logged,
                    calculate_overall_score(args.posture_analysis, last.ret,
                                            args.topic_keywords).ret)
    /\ UNCHANGED <<active_sessions, feedback_history, now, nframes, received, solo,
                   args>>

InitSpeech ==
    /\ active_sessions = EmptyDict
    /\ feedback_history = EmptyDict
    /\ now = 0
    /\ last = Call("__init__", "", FALSE, "", "", PyNone)
    /\ nframes = 0
    /\ received = [id \in AllIds |-> NoneReceived]
    /\ solo = [id \in AllIds |-> EmptyRegistry]
    /\ args \in TranscriptArgs

NextSpeech == AnalyzeTranscript \/ ScoreTranscript

SpecSpeech == InitSpeech /\ [][NextSpeech]_vars

---------------------------------------------------------------------------
(* The speech analyzer called with transcriptions whose words lie on both  *)
(* sides of the 10-second marks and across them, and form the filler       *)
(* "um" and the filler phrase "you know"                                   *)

PaceWords == {"you", "know", "um"}

\* After 9.25 s of silence a word that follows a first word lies across the
\* 10-second mark; after 9.5 s it starts on the mark
PaceGaps == {50, 925, 950}

PaceOneMoreWord(words) ==
    {Append(words, TimedWord(w, start, start + WordLength)) :
       w \in PaceWords,
       start \in {IF words = <<>> THEN 0 ELSE words[Len(words)].end + g : g \in PaceGaps}}

RECURSIVE PaceWordListsOf(_)
PaceWordListsOf(n) ==
    IF n = 0 THEN {<<>>}
    ELSE UNION {PaceOneMoreWord(words) : words \in PaceWordListsOf(n - 1)}

PaceWordLists == UNION {PaceWordListsOf(n) : n \in 0..MaxWords}

PaceArgs ==
    [transcript_data : {Transcription(<<Word("you", 3, FALSE), Word("know", 4, TRUE)>>,
                                      words) : words \in PaceWordLists},
     posture_analysis : {PostureAnalysis(900, 375, 850, 500)},
     topic_keywords : {PyNone}]

InitPace ==
    /\ active_sessions = EmptyDict
    /\ feedback_history = EmptyDict
    /\ now = 0
    /\ last = Call("__init__", "", FALSE, "", "", PyNone)
    /\ nframes = 0
    /\ received = [id \in AllIds |-> NoneReceived]
    /\ solo = [id \in AllIds |-> EmptyRegistry]
    /\ args \in PaceArgs

NextPace == AnalyzeTranscript

SpecPace == InitPace /\ [][NextPace]_vars

---------------------------------------------------------------------------
(* The filler sub-score of the scoring engine, called with a filler rate *)

\* The largest filler rate scored, in tenths of a filler per minute
MaxFillerRate == 250

FillerRates == {Rat(k, 10) : k \in 0..MaxFillerRate}

CalculateFillerScore ==
    /\ last.op = "__init__"
    /\ last' = Call("_calculate_filler_score", "", FALSE, "", "",
                    _calculate_filler_score(args.filler_rate))
    /\ UNCHANGED <<active_sessions, feedback_history, now, nframes, received, solo,
                   args>>

InitFiller ==
    /\ active_sessions = EmptyDict
    /\ feedback_history = EmptyDict
    /\ now = 0
    /\ last = Call("__init__", "", FALSE, "", "", PyNone)
    /\ nframes = 0
    /\ received = [id \in AllIds |-> NoneReceived]
    /\ solo = [id \in AllIds |-> EmptyRegistry]
    /\ args \in [filler_rate : FillerRates]

NextFiller == CalculateFillerScore

SpecFiller == InitFiller /\ [][NextFiller]_vars

---------------------------------------------------------------------------
(* The pace sub-score of the scoring engine, called with a pace in whole   *)
(* words per minute, as the speech analyzer reports it                     *)

\* The fastest pace scored
MaxWpm == 420

Wpms == {Whole(k) : k \in 0..MaxWpm}

CalculateWpmScore ==
    /\ last.op = "__init__"
    /\ last' = Call("_calculate_wpm_score", "", FALSE, "", "",
                    _calculate_wpm_score(args.wpm))
    /\ UNCHANGED <<active_sessions, feedback_history, now, nframes, received, solo,
                   args>>

InitWpm ==
    /\ active_sessions = EmptyDict
    /\ feedback_history = EmptyDict
    /\ now = 0
    /\ last = Call("__init__", "", FALSE, "", "", PyNone)
    /\ nframes = 0
    /\ received = [id \in AllIds |-> NoneReceived]
    /\ solo = [id \in AllIds |-> EmptyRegistry]
    /\ args \in [wpm : Wpms]

NextWpm == CalculateWpmScore

SpecWpm == InitWpm /\ [][NextWpm]_vars

---------------------------------------------------------------------------
(* The posture aggregator called with the samples a recording came with *)

MaxSamples == 3

\* Timestamps 0 s and 1 s; scores 0, 10, 85 and 90
PostureSamples == {Sample(ts, score) : ts \in {0, 10}, score \in {0, 100, 850, 900}}

\* The lists of exactly n posture samples
RECURSIVE SampleListsOf(_)
SampleListsOf(n) ==
    IF n = 0 THEN {<<>>}
    ELSE {Append(items, sample) : items \in SampleListsOf(n - 1), sample \in PostureSamples}

PostureStreams ==
    {Samples(items) : items \in UNION {SampleListsOf(n) : n \in 0..MaxSamples}}

EyeContactStreams ==
    {Samples(<<>>),
     Samples(<<Sample(0, 800)>>),
     Samples(<<Sample(10, 800)>>),
     Samples(<<Sample(15, 0)>>),
     Samples(<<Sample(25, 0), Sample(5, 400)>>),
     Samples(<<Sample(0, 400), Sample(10, 600)>>)}

\* Posture data of other shapes: no mapping, a missing or null stream, entries
\* that are no mappings or hold what is no number
OtherPostureData ==
    {PyNone, PyStr, PyList, EmptyDict,
     [posture |-> Samples(<<Sample(0, 900)>>)],
     [posture |-> PyNone, eye_contact |-> PyNone],
     [posture |-> PyNone, eye_contact |-> Samples(<<Sample(0, 800)>>)],
     [posture |-> Samples(<<PyStr, PyStr>>), eye_contact |-> Samples(<<>>)],
     [posture |-> Samples(<<Sample(0, 900), [timestamp |-> PyStr, score |-> Num(900)]>>),
      eye_contact |-> Samples(<<>>)],
     [posture |-> Samples(<<Sample(0, 900)>>),
      eye_contact |-> Samples(<<[timestamp |-> Num(0), score |-> PyStr]>>)],
     [posture |-> Samples(<<[score |-> Num(900)], [timestamp |-> Num(10)]>>),
      eye_contact |-> Samples(<<>>)]}

PostureData ==
    OtherPostureData
    \cup {[posture |-> p, eye_contact |-> e] : p \in PostureStreams, e \in EyeContactStreams}

ProcessPostureData ==
    /\ last.op = "__init__"
    /\ last' = Call("process_posture_data", "", FALSE,
                    process_posture_data(args.raw_data).raised,
                    process_posture_data(args.raw_data).logged,
                    process_posture_data(args.raw_data).ret)
    /\ UNCHANGED <<active_sessions, feedback_history, now, nframes, received, solo,
                   args>>

InitPosture ==
    /\ active_sessions = EmptyDict
    /\ feedback_history = EmptyDict
    /\ now = 0
    /\ last = Call("__init__", "", FALSE, "", "", PyNone)
    /\ nframes = 0
    /\ received = [id \in AllIds |-> NoneReceived]
    /\ solo = [id \in AllIds |-> EmptyRegistry]
    /\ args \in [raw_data : PostureData]

NextPosture == ProcessPostureData

SpecPosture == InitPosture /\ [][NextPosture]_vars

---------------------------------------------------------------------------
(* The incremental overall score, called with the feedback of one frame *)

\* The largest number of filler words in the last minute that is scored
MaxRate == 11

FrameScoresOf(eye) ==
    IF eye THEN {0, 45, 53, 90, 100} ELSE {0, 1, 30, 88, 90, 100}

Paces == {0, 100, 139, 140, 150, 160, 161, 175, 200, 230}

Rates == {0, 1, 3, MaxRate - 1, MaxRate}

\* The feedback of a frame, as analyze_frame hands it over
FrameFeedback(posture_score, eye_contact_score, current_wpm, filler_rate) ==
    [posture |-> [score |-> posture_score, eye_contact_score |-> eye_contact_score],
     speech |-> [current_wpm |-> current_wpm, filler_rate |-> filler_rate]]

OverallArgs ==
    [posture_score : FrameScoresOf(FALSE), eye_contact_score : FrameScoresOf(TRUE),
     current_wpm : Paces, filler_rate : Rates]

CalculateOverall ==
    /\ last.op = "__init__"
    /\ last' = Call("_calculate_overall_score", "", FALSE, "", "",
                    _calculate_overall_score(
                      FrameFeedback(args.posture_score, args.eye_contact_score,
                                    args.current_wpm, args.filler_rate)))
    /\ UNCHANGED <<active_sessions, feedback_history, now, nframes, received, solo,
                   args>>

InitOverall ==
    /\ active_sessions = EmptyDict
    /\ feedback_history = EmptyDict
    /\ now = 0
    /\ last = Call("__init__", "", FALSE, "", "", PyNone)
    /\ nframes = 0
    /\ received = [id \in AllIds |-> NoneReceived]
    /\ solo = [id \in AllIds |-> EmptyRegistry]
    /\ args \in OverallArgs

NextOverall == CalculateOverall

SpecOverall == InitOverall /\ [][NextOverall]_vars

---------------------------------------------------------------------------
(* A session that is being spoken to: the run starts after start_session   *)
(* and two frames with an audio chunk, within the first second, in each of *)
(* which the simulated detection found a filler word.                      *)

AudioChunk == [t |-> "str", v |-> "UklGRg=="]

\* posture 31.0 and eye contact 20.0
LowSample == FlatPosture(Num(310), Num(200))

\* posture 91.0 and eye contact 90.0
HighSample == FlatPosture(Num(910), Num(900))

\* What the second of those analyze_frame calls returned
Talked ==
    analyze_frame(analyze_frame(start_session(EmptyRegistry, "s1", 0),
                                "s1", ZeroSample, AudioChunk, 0, TRUE).reg,
                  "s1", ZeroSample, AudioChunk, 0, TRUE)

InitTalk == InitFrom(Talked, NoneReceived)

TalkPostureInputs == {ZeroSample, HighSample, LowSample, BadScoreSample}

TalkAudioInputs == {PyNone, AudioChunk}

NextTalk ==
    \/ \E id \in Ids : StartSession(id)
    \/ \E id \in Ids : EndSession(id)
    \/ \E id \in Ids, pd \in TalkPostureInputs, ac \in TalkAudioInputs :
         \E hit \in RandomOutcomes(ac) : AnalyzeFrame(id, pd, ac, hit)
    \/ Tick

SpecTalk == InitTalk /\ [][NextTalk]_vars

---------------------------------------------------------------------------
(* Properties of the real-time feedback service *)

\* fb is the empty-feedback structure of _get_empty_feedback, whatever its
\* timestamp
IsEmptyFeedback(fb) ==
    /\ "timestamp" \in DOMAIN fb
    /\ fb = _get_empty_feedback(fb.timestamp)

\* C1: analyze_frame never lets an exception reach its caller, and when
\* something failed inside the analysis of an Active session the value it
\* returns is exactly the empty-feedback structure.
C1_AnalyzeFrameNeverRaises ==
    last.op = "analyze_frame" =>
        /\ last.raised = ""
        /\ (last.before /\ last.logged # "") => IsEmptyFeedback(last.ret)

\* C1 witness: a frame of an Active session failed on a non-numeric score
\* and the call returned the empty feedback
C1_Witness ==
    /\ last.op = "analyze_frame"
    /\ last.before
    /\ last.logged = "TypeError"
    /\ last.raised = ""
    /\ IsEmptyFeedback(last.ret)

\* C2: analyze_frame on an id that is not Active (never started, or already
\* ended) returns the empty-feedback structure and leaves the registry of
\* sessions and their histories as it was.
C2_InactiveFrameChangesNothing ==
    [][\A id \in AllIds :
         (~Active(id) /\ last'.op = "analyze_frame" /\ last'.id = id) =>
            \A pd \in PostureInputs, ac \in AudioInputs, hit \in BOOLEAN :
               AnalyzeFrame(id, pd, ac, hit) =>
                  /\ IsEmptyFeedback(last'.ret)
                  /\ last'.raised = ""
                  /\ UNCHANGED <<active_sessions, feedback_history>>]_vars

\* C2 witness: a frame arrived for a session that had analysed a frame and
\* was then ended; nothing was created for it
C2_Witness ==
    /\ last.op = "analyze_frame"
    /\ ~last.before
    /\ nframes > 0
    /\ IsEmptyFeedback(last.ret)
    /\ last.id \notin DOMAIN active_sessions
    /\ last.id \notin DOMAIN feedback_history

\* C3: end_session(id) is safe on an id with no entries: it raises nothing
\* and changes nothing; after any end_session(id) the id has neither a
\* session nor a history, so a second end leaves the registry as the first
\* left it.
C3_EndSessionIdempotent ==
    [][\A id \in AllIds :
         EndSession(id) =>
            /\ last'.raised = ""
            /\ id \notin DOMAIN active_sessions'
            /\ id \notin DOMAIN feedback_history'
            /\ \A other \in DOMAIN active_sessions \ {id} :
                  /\ other \in DOMAIN active_sessions'
                  /\ active_sessions'[other] = active_sessions[other]
            /\ (~Active(id) /\ id \notin DOMAIN feedback_history) =>
                  UNCHANGED <<active_sessions, feedback_history>>]_vars

\* C3 witness: end_session was called for a session that had analysed a
\* frame and had already been ended
C3_Witness ==
    /\ last.op = "end_session"
    /\ ~last.before
    /\ last.raised = ""
    /\ nframes > 0
    /\ last.id \notin DOMAIN active_sessions

\* C4: while an Active session has received no positive posture or
\* eye-contact score and no audio chunk, a frame with posture score 0 and
\* eye-contact score 0 is answered with overall score 50, alert level
\* 'needs_improvement' and the single suggestion "Start speaking to get
\* real-time feedback...".
C4_NeutralUntilFirstSignal ==
    (/\ last.op = "analyze_frame"
     /\ last.before
     /\ last.logged = ""
     /\ Active(last.id)
     /\ received[last.id] = NoneReceived
     /\ active_sessions[last.id].speech_data.word_count = 0) =>
        /\ last.ret.posture.score = 0
        /\ last.ret.posture.eye_contact_score = 0
        /\ last.ret.overall_score = 50
        /\ last.ret.alert_level = "needs_improvement"
        /\ last.ret.suggestions = <<"Start speaking to get real-time feedback...">>

\* C4 witness: the second frame in a row of a session that has still seen no
\* positive score and no audio
C4_Witness ==
    /\ last.op = "analyze_frame"
    /\ last.before
    /\ last.logged = ""
    /\ Active(last.id)
    /\ received[last.id] = NoneReceived
    /\ active_sessions[last.id].speech_data.word_count = 0
    /\ nframes = 2
    /\ last.ret.overall_score = 50

\* What the registry holds for id: its session (buffers, speech bookkeeping,
\* metric history, recent messages) and its feedback history
View(reg, id) ==
    [session |-> IF id \in DOMAIN reg.active_sessions
                 THEN Some(reg.active_sessions[id]) ELSE PyNone,
     history |-> IF id \in DOMAIN reg.feedback_history
                 THEN Some(reg.feedback_history[id]) ELSE PyNone]

\* C8: sessions with different ids do not interfere: whatever calls were
\* made for the other id, what the registry holds for an id is what it would
\* hold had only the calls for that id been made (solo[id] is a registry that
\* received only those).
C8_NoInterference ==
    \A id \in AllIds : View(Reg, id) = View(solo[id], id)

\* C8 witness: both sessions are Active, each has analysed a frame, and they
\* hold different posture buffers
C8_Witness ==
    /\ AllIds \subseteq DOMAIN active_sessions
    /\ \A id \in AllIds : Len(feedback_history[id]) > 0
    /\ active_sessions["s1"].posture_scores # active_sessions["s2"].posture_scores
    /\ \A id \in AllIds : View(Reg, id) = View(solo[id], id)

\* s[-n:]
LastN(s, n) == IF Len(s) <= n THEN s ELSE SubSeq(s, Len(s) - n + 1, Len(s))

\* buffer holds at most maxlen values, all positive, and they are the last
\* maxlen of the positive scores scores_received, in arrival order
BufferHolds(buffer, scores_received, maxlen) ==
    /\ Len(buffer) <= maxlen
    /\ \A i \in 1..Len(buffer) : buffer[i] > 0
    /\ buffer = LastN(scores_received, maxlen)

\* C5: after any sequence of analyze_frame calls on a session, its posture
\* buffer and its eye-contact buffer each hold at most 300 values, only
\* strictly positive ones, and equal the most recent (up to 300) positive
\* scores the session received, in arrival order.
C5_BuffersHoldRecentPositive ==
    \A id \in DOMAIN active_sessions :
        /\ BufferHolds(active_sessions[id].posture_scores, received[id].posture,
                       PostureScoresMaxLen)
        /\ BufferHolds(active_sessions[id].eye_contact_scores,
                       received[id].eye_contact, EyeContactScoresMaxLen)

\* The largest capacity start_session gives to any buffer of a session
LargestMaxLen ==
    Max(Max(PostureScoresMaxLen, EyeContactScoresMaxLen),
        Max(FillerWordsMaxLen, FeedbackMessagesMaxLen))

\* C6: the feedback history of an id and its recent-message buffer are both
\* capped: neither grows beyond a fixed bound however many analyze_frame
\* calls succeed (the bound tried for the history is the largest capacity
\* any buffer of the session has).
C6_HistoryAndMessagesCapped ==
    /\ \A id \in DOMAIN feedback_history :
          Len(feedback_history[id]) <= LargestMaxLen
    /\ \A id \in DOMAIN active_sessions :
          Len(active_sessions[id].feedback_messages) <= FeedbackMessagesMaxLen

---------------------------------------------------------------------------
(* The incremental overall score *)

\* analyze_frame returned the feedback of a frame of a session that goes on
FrameScored ==
    /\ last.op = "analyze_frame"
    /\ last.raised = ""
    /\ last.logged = ""
    /\ Active(last.id)

\* The session of the last call has buffered a positive sample
HasBuffered ==
    \/ active_sessions[last.id].posture_scores # <<>>
    \/ active_sessions[last.id].eye_contact_scores # <<>>

\* The weighted average of the sub-scores of the feedback returned
AverageOfFeedback(feedback) ==
    WeightedAverageOfAll(
        DictGet(feedback.posture, "score", 0),
        DictGet(feedback.posture, "eye_contact_score", 0),
        PaceScore(DictGet(feedback.speech, "current_wpm", 0)),
        FillerScore(DictGet(feedback.speech, "filler_rate", 0)))

\* C19: once the session has buffered a positive posture or eye-contact
\* sample, the overall score of every later frame, also of a frame whose
\* posture and eye-contact scores are both 0, is the weighted average and
\* not the neutral 50.
C19_NeutralOnlyBeforeFirstSample ==
    (FrameScored /\ HasBuffered) =>
        last.ret.overall_score = AverageOfFeedback(last.ret)

\* The sub-scores and the quotient of the weighted sum by the weights used,
\* in exact arithmetic; the weights are in hundredths
PaceSubScore(wpm) ==
    IF 140 <= wpm /\ wpm <= 160 THEN 100
    ELSE IF wpm = 0 THEN 50
    ELSE Max(0, 100 - 2 * Abs(wpm - 150))

FillerSubScore(rate) == Max(0, 100 - 10 * rate)

WeightUsed(score) == IF score > 0 THEN 30 ELSE 0

QuotientOfWeighted(posture_score, eye_contact_score, pace_score, filler_score) ==
    (WeightUsed(posture_score) * posture_score
     + WeightUsed(eye_contact_score) * eye_contact_score
     + 25 * pace_score + 15 * filler_score)
    \div (WeightUsed(posture_score) + WeightUsed(eye_contact_score) + 25 + 15)

\* C20: for a frame with a positive posture or eye-contact score,
\* overall_score is the integer part of the weighted sum of the sub-scores
\* over the sum of the weights used (posture .3 and eye contact .3 if
\* positive, pace .25, filler .15), and is a whole number from 0 to 100.
C20_OverallIsWeightedAverage ==
    (/\ last.op = "_calculate_overall_score"
     /\ args.posture_score > 0 \/ args.eye_contact_score > 0) =>
        /\ last.ret \in 0..100
        /\ last.ret = QuotientOfWeighted(args.posture_score, args.eye_contact_score,
                                         PaceSubScore(args.current_wpm),
                                         FillerSubScore(args.filler_rate))

---------------------------------------------------------------------------
(* The feedback object returned by analyze_frame *)

\* The alert level named by the buckets for a score
LevelOfScore(score) ==
    CASE score >= 80 -> "excellent"
      [] score >= 60 /\ score < 80 -> "good"
      [] score >= 40 /\ score < 60 -> "needs_improvement"
      [] score < 40 -> "poor"

\* C21: in every feedback object returned by analyze_frame, alert_level is
\* 'unknown' exactly when the object is the empty-feedback fallback, and
\* otherwise it is the bucket of the overall_score of the same object:
\* 'excellent' from 80, 'good' from 60, 'needs_improvement' from 40, else
\* 'poor'.
C21_AlertLevelAgreesWithScore ==
    last.op = "analyze_frame" =>
        /\ last.ret.alert_level = "unknown" <=> IsEmptyFeedback(last.ret)
        /\ ~IsEmptyFeedback(last.ret) =>
              last.ret.alert_level = LevelOfScore(last.ret.overall_score)

\* C21 witness: a frame of an Active session answered with a score of at
\* least 80 and the alert level 'excellent'
C21_Witness ==
    /\ last.op = "analyze_frame"
    /\ last.before
    /\ last.logged = ""
    /\ last.ret.overall_score >= 80
    /\ last.ret.alert_level = "excellent"

\* analyze_frame returned the feedback of a frame of an Active session, on
\* the normal path
FrameAnswered ==
    /\ last.op = "analyze_frame"
    /\ last.before
    /\ last.raised = ""
    /\ last.logged = ""

\* The corrective suggestions that apply to a feedback object, by kind
PostureApplies(fb) ==
    DictGet(fb.posture, "posture_status", "unknown") = "poor"
    /\ DictGet(fb.posture, "score", 0) > 0

EyeContactApplies(fb) ==
    DictGet(fb.posture, "eye_contact_status", "unknown") = "poor"
    /\ DictGet(fb.posture, "eye_contact_score", 0) > 0

PaceApplies(fb) ==
    DictGet(fb.speech, "pace_status", "ideal") \in {"too_slow", "too_fast"}
    /\ DictGet(fb.speech, "current_wpm", 0) > 0

FillerApplies(fb) ==
    DictGet(fb.speech, "filler_status", "low") \in {"high", "medium"}
    /\ DictGet(fb.speech, "filler_rate", 0) > 0

NoCorrective(fb) ==
    ~PostureApplies(fb) /\ ~EyeContactApplies(fb) /\ ~PaceApplies(fb)
    /\ ~FillerApplies(fb)

\* C22: when the overall score of a frame is at least 80 and no corrective
\* suggestion (posture, eye contact, pace, filler words) applies, the
\* suggestions returned are the positive message and not the generic
\* encouragement.
C22_PositiveMessageWhenExcellent ==
    (FrameAnswered /\ last.ret.overall_score >= 80 /\ NoCorrective(last.ret)) =>
        last.ret.suggestions = <<"Great job! Your delivery is confident and clear">>

\* The place of a suggestion in the priority order: posture, eye contact,
\* pace, filler words, and after them the messages that are not corrective
Priority(suggestion) ==
    CASE suggestion = "Sit up straight - align your shoulders with your hips" -> 1
      [] suggestion = "Look directly at the camera for better engagement" -> 2
      [] suggestion \in {"Speak a bit faster to maintain audience interest",
                         "Slow down slightly for better clarity"} -> 3
      [] suggestion \in {"Practice pausing instead of using filler words",
                         "Watch for occasional filler words like 'um' or 'like'"} -> 4
      [] OTHER -> 5

InPriorityOrder(suggestions) ==
    \A i, j \in 1..Len(suggestions) :
        i < j => /\ suggestions[i] # suggestions[j]
                 /\ Priority(suggestions[i]) < Priority(suggestions[j])

AllFourApply(fb) ==
    PostureApplies(fb) /\ EyeContactApplies(fb) /\ PaceApplies(fb) /\ FillerApplies(fb)

\* C23: a feedback returned on the normal path for an Active session carries
\* 1 to 3 suggestions, without duplicates, in the priority order posture,
\* eye contact, pace, filler words; when all four corrective suggestions
\* apply, the filler one is dropped; and a feedback returned by analyze_frame
\* has an empty suggestion list only when it is the empty-feedback fallback.
C23_SuggestionsPrioritised ==
    /\ FrameAnswered =>
          /\ Len(last.ret.suggestions) \in 1..3
          /\ InPriorityOrder(last.ret.suggestions)
          /\ AllFourApply(last.ret) =>
                /\ Len(last.ret.suggestions) = 3
                /\ \A i \in 1..3 : Priority(last.ret.suggestions[i]) = i
    /\ (last.op = "analyze_frame" /\ last.ret.suggestions = <<>>) =>
          IsEmptyFeedback(last.ret)

\* C23 witness: a frame to which all four corrective suggestions apply,
\* answered with the first three
C23_Witness ==
    /\ FrameAnswered
    /\ AllFourApply(last.ret)
    /\ Len(last.ret.suggestions) = 3

\* Posture samples of unexpected shape: a list, a 'posture' entry that is a
\* string, a score that is a string, a score that is null
UnexpectedSamples == {PyList, BadEntrySample, BadScoreSample, NullScoreSample}

\* C24: a posture sample of unexpected shape (not a mapping, a 'posture' or
\* 'eye_contact' entry that is not a mapping, a non-numeric score) is treated
\* as posture score 0 and eye-contact score 0: analyze_frame on an Active
\* session returns the normal feedback for those scores, not the
\* empty-feedback fallback.
C24_UnexpectedShapeIsZeroScores ==
    [][\A id \in AllIds :
         Active(id) =>
            \A pd \in UnexpectedSamples, ac \in AudioInputs, hit \in BOOLEAN :
               AnalyzeFrame(id, pd, ac, hit) =>
                  /\ ~IsEmptyFeedback(last'.ret)
                  /\ last'.logged = ""
                  /\ DictGet(last'.ret.posture, "score", 0) = 0
                  /\ DictGet(last'.ret.posture, "eye_contact_score", 0) = 0]_vars

\* C28: an analyze_frame call on an Active session that ends in the
\* empty-feedback fallback leaves the session's state as it was: its posture
\* and eye-contact buffers, its metric history, its recent-message buffer and
\* its feedback history are unchanged.
C28_FallbackLeavesSessionUnchanged ==
    [][\A id \in AllIds :
         Active(id) =>
            \A pd \in PostureInputs, ac \in AudioInputs, hit \in BOOLEAN :
               (AnalyzeFrame(id, pd, ac, hit) /\ IsEmptyFeedback(last'.ret)) =>
                  /\ active_sessions'[id].posture_scores
                       = active_sessions[id].posture_scores
                  /\ active_sessions'[id].eye_contact_scores
                       = active_sessions[id].eye_contact_scores
                  /\ active_sessions'[id].metrics_history
                       = active_sessions[id].metrics_history
                  /\ active_sessions'[id].feedback_messages
                       = active_sessions[id].feedback_messages
                  /\ feedback_history'[id] = feedback_history[id]]_vars

\* A session in which nothing has been recorded
IsFresh(session) ==
    /\ session.posture_scores = <<>>
    /\ session.eye_contact_scores = <<>>
    /\ session.filler_words = <<>>
    /\ session.speech_data.word_count = 0
    /\ session.feedback_messages = <<>>
    /\ \A k \in DOMAIN session.metrics_history : session.metrics_history[k] = <<>>

\* C27: start_session on an id that is already Active re-initialises it: its
\* rolling buffers, speech word count, metric history, recent-message buffer
\* and feedback history are empty afterwards and its start time is the time
\* of the call, so that the session is the one a first start would have made.
C27_RestartReinitialises ==
    [][\A id \in AllIds :
         (Active(id) /\ StartSession(id)) =>
            /\ IsFresh(active_sessions'[id])
            /\ active_sessions'[id].start_time = now
            /\ feedback_history'[id] = <<>>
            /\ active_sessions'[id]
                 = start_session(EmptyRegistry, id, now).active_sessions[id]]_vars

\* C27 witness: a session that was Active, in a run that has analysed a frame
\* of an Active session, was started again and holds nothing
C27_Witness ==
    /\ last.op = "start_session"
    /\ last.before
    /\ nframes > 0
    /\ IsFresh(active_sessions[last.id])
    /\ feedback_history[last.id] = <<>>

---------------------------------------------------------------------------
(* Properties of the recording handlers *)

\* save_recording answered success for the recording of id
Saved(id) ==
    /\ last.op = "save_recording"
    /\ last.id = id
    /\ last.ret.success

\* C7: every real-time session is eventually destroyed: once the recording
\* of an id has been saved and processed, the id does not stay Active for
\* ever.
C7_SessionEventuallyDestroyed ==
    \A id \in Ids : [](Saved(id) => <>(~Active(id)))

---------------------------------------------------------------------------
(* Properties of the scoring engine *)

\* calculate_overall_score returned a normally computed score
ScoredNormally ==
    /\ last.op = "calculate_overall_score"
    /\ last.logged = ""

InRange(x) == RatLe(Whole(0), x) /\ RatLe(x, Whole(100))

\* C9: for every input of calculate_overall_score, averages, percentages
\* and pace variation outside their nominal ranges included, each of the
\* five category totals and the final total lie in [0,100].
C9_TotalsClamped ==
    ScoredNormally =>
        /\ \A c \in DOMAIN last.ret.category_scores :
              InRange(last.ret.category_scores[c].total)
        /\ 0 <= last.ret.total /\ last.ret.total <= 1000

\* The five category totals of the score returned are one and the same
EqualTotals(s) ==
    \A c \in DOMAIN last.ret.category_scores : last.ret.category_scores[c].total = s

\* C10: in the final total every category is weighted by the sum of its own
\* component weights, the five weights applied sum to 1.0, and so a score
\* whose five category totals all equal s has total s.
C10_WeightsSumToOne ==
    ScoredNormally =>
        /\ last.ret.total = Round1(TotalScore(last.ret.category_scores, SummedWeights))
        /\ EqualTotals(last.ret.category_scores.posture.total) =>
              last.ret.total = Round1(last.ret.category_scores.posture.total)

\* calculate_overall_score was called and one of its steps failed
ScoreFailed ==
    /\ last.op = "calculate_overall_score"
    /\ last.logged # ""

\* C11: calculate_overall_score never raises to its caller; when an internal
\* step fails it returns total 0, the five breakdown entries 0, performance
\* level 'Needs Practice' and the single default recommendation.
C11_FailureGivesZeroedScore ==
    last.op = "calculate_overall_score" =>
        /\ last.raised = ""
        /\ ScoreFailed =>
              /\ last.ret.total = 0
              /\ DOMAIN last.ret.breakdown =
                    {"posture", "eye_contact", "speech", "content", "delivery"}
              /\ \A c \in DOMAIN last.ret.breakdown : last.ret.breakdown[c] = 0
              /\ last.ret.performance_level = "Needs Practice"
              /\ last.ret.recommendations =
                    <<"Start practicing to get your first score!">>

\* C11 witness: a malformed speech structure made a step fail
C11_Witness ==
    /\ ScoreFailed
    /\ args.speech_analysis = PyStr
    /\ args.posture_analysis # PyNone

\* The filler rate scored, in tenths of a filler per minute
RateInTenths == (args.filler_rate.n * 10) \div args.filler_rate.d

\* C13: the filler sub-score is 100 up to 3 fillers per minute,
\* 100 - (rate - 3) * 10 above 3 up to 10 and max(0, 50 - (rate - 10) * 5)
\* above 10: rate 3 gives 100, rate 10 gives 30 and rate 15 gives 25.
C13_FillerScorePiecewise ==
    last.op = "_calculate_filler_score" =>
        /\ RateInTenths <= 30 => last.ret = Whole(100)
        /\ RateInTenths > 30 /\ RateInTenths <= 100 =>
              last.ret = Whole(100 - (RateInTenths - 30))
        /\ RateInTenths > 100 /\ RateInTenths <= 200 =>
              last.ret = Rat(200 - RateInTenths, 2)
        /\ RateInTenths > 200 => last.ret = Whole(0)
        /\ RateInTenths = 30 => last.ret = Whole(100)
        /\ RateInTenths = 100 => last.ret = Whole(30)
        /\ RateInTenths = 150 => last.ret = Whole(25)

\* C13 witness: 15 fillers per minute were scored 25
C13_Witness ==
    /\ last.op = "_calculate_filler_score"
    /\ args.filler_rate = Whole(15)
    /\ last.ret = Whole(25)

\* C30: the filler sub-score never increases when the filler rate increases:
\* every higher rate is scored at most what the rate scored is, also across
\* the boundary at 10 fillers per minute.
C30_FillerScoreNonIncreasing ==
    last.op = "_calculate_filler_score" =>
        \A higher \in FillerRates :
            RatLt(args.filler_rate, higher) =>
                RatLe(_calculate_filler_score(higher), last.ret)

---------------------------------------------------------------------------
(* The pace sub-score *)

\* C29: the wpm sub-score is between 0 and 100 and never increases as the
\* pace moves away from the ideal range 140..160: below 140 a slower pace
\* scores at most what a faster one scores, above 160 a faster pace scores at
\* most what a slower one scores.
C29_WpmScoreFallsAwayFromIdeal ==
    last.op = "_calculate_wpm_score" =>
        /\ RatLe(Whole(0), last.ret)
        /\ RatLe(last.ret, Whole(100))
        /\ \A wpm2 \in Wpms :
              (RatLt(args.wpm, wpm2) /\ RatLe(wpm2, Whole(140))) =>
                  RatLe(last.ret, _calculate_wpm_score(wpm2))
        /\ \A wpm2 \in Wpms :
              (RatLe(Whole(160), args.wpm) /\ RatLt(args.wpm, wpm2)) =>
                  RatLe(_calculate_wpm_score(wpm2), last.ret)

---------------------------------------------------------------------------
(* The recommendations of an overall score *)

\* calculate_overall_score returned a score it computed
ScoreComputed ==
    /\ last.op = "calculate_overall_score"
    /\ last.raised = ""
    /\ last.logged = ""

Categories == {CategoryOrder[i] : i \in 1..Len(CategoryOrder)}

\* The categories of category_scores whose total is below 70
Weak(category_scores) ==
    {c \in Categories : RatLt(category_scores[c].total, Whole(70))}

\* The weak categories that score less than c, and those that score no more
Below(category_scores, c) ==
    {d \in Weak(category_scores) :
       RatLt(category_scores[d].total, category_scores[c].total)}

NotAbove(category_scores, c) ==
    {d \in Weak(category_scores) :
       RatLe(category_scores[d].total, category_scores[c].total)}

\* recommendations[i] is the advice of a weak category that is i-th lowest
AdviceOfRank(recommendations, category_scores, i) ==
    \E c \in Weak(category_scores) :
       /\ recommendations[i] = Advice[c]
       /\ Cardinality(Below(category_scores, c)) < i
       /\ Cardinality(NotAbove(category_scores, c)) >= i

PositiveMessage ==
    "Great overall performance! Continue practicing to maintain these skills."

RecommendsFor(recommendations, category_scores) ==
    /\ Len(recommendations) <= 3
    /\ Weak(category_scores) # {} =>
          /\ Len(recommendations) = Min(3, Cardinality(Weak(category_scores)))
          /\ \A i \in 1..Len(recommendations) :
                AdviceOfRank(recommendations, category_scores, i)
          /\ \A i, j \in 1..Len(recommendations) :
                i # j => recommendations[i] # recommendations[j]
    /\ Weak(category_scores) = {} =>
          recommendations =
            IF \E c \in Categories : RatLe(Whole(80), category_scores[c].total)
            THEN <<PositiveMessage>>
            ELSE <<>>

\* C18: a computed score has at most 3 recommendations: the advice of each
\* of the up to three lowest categories whose total is below 70, by
\* ascending total; with no category below 70 the list is the positive
\* message alone if some total is at least 80, and empty otherwise.
C18_RecommendationsForWeakest ==
    ScoreComputed =>
        RecommendsFor(last.ret.recommendations, last.ret.category_scores)

\* C18 witness: more than three categories are below 70, and the three
\* advices given are not in the order of the dictionary
C18_Witness ==
    /\ ScoreComputed
    /\ Cardinality(Weak(last.ret.category_scores)) > 3
    /\ Len(last.ret.recommendations) = 3
    /\ last.ret.recommendations # 
          SubSeq([i \in 1..Len(WeakCategories(last.ret.category_scores)) |->
                    Advice[WeakCategories(last.ret.category_scores)[i]]], 1, 3)

---------------------------------------------------------------------------
(* Properties of the speech analyzer *)

\* The transcription handed to analyze_transcript has no transcript text:
\* no results, no channel, no alternative, or an empty transcript
EmptyTranscript ==
    \/ NoResults(args.transcript_data)
    \/ _extract_transcript_text(args.transcript_data).val = <<>>

\* Every sub-structure of an analysis is present and holds nothing
ZeroAnalysis(a) ==
    /\ a.word_count = 0
    /\ a.words_per_minute.v = 0
    /\ a.duration_seconds.v = 0
    /\ a.speaking_time_seconds.v = 0
    /\ a.pause_time_seconds.v = 0
    /\ a.filler_words.total_count = 0
    /\ a.filler_words.percentage.v = 0
    /\ DOMAIN a.filler_words.breakdown = {}
    /\ Len(a.filler_words.instances) = 0
    /\ a.pauses.count = 0
    /\ a.pauses.total_duration.v = 0
    /\ a.pauses.average_duration.v = 0
    /\ Len(a.pauses.details) = 0
    /\ DOMAIN a.repetition.repeated_words = {}
    /\ DOMAIN a.repetition.top_repetitions = {}
    /\ Len(a.repetition.repetition_sequences) = 0
    /\ a.grammar_errors.count = 0
    /\ Len(a.grammar_errors.details) = 0
    /\ a.pace_analysis.pace_variation.v = 0
    /\ Len(a.pace_analysis.pace_segments) = 0
    /\ Len(a.transcript) = 0
    /\ Len(a.word_timings) = 0

\* C12: for an empty transcript analyze_transcript returns, without raising,
\* an analysis with word_count 0, words_per_minute 0 and every sub-structure
\* present and empty or zero; calculate_overall_score given that analysis
\* returns a total computed on its normal path, not its failure result.
C12_EmptyTranscriptScored ==
    EmptyTranscript =>
        /\ last.op = "analyze_transcript" =>
              /\ last.raised = ""
              /\ ZeroAnalysis(last.ret)
        /\ last.op = "calculate_overall_score" =>
              /\ last.raised = ""
              /\ last.logged = ""
              /\ DOMAIN last.ret.category_scores =
                    {"posture", "eye_contact", "speech", "content", "delivery"}
              /\ last.ret.total \in Int

\* C12 witness: a transcription with word entries and no text was analysed
\* and its analysis scored
C12_Witness ==
    /\ last.op = "calculate_overall_score"
    /\ EmptyTranscript
    /\ "results" \in DOMAIN args.transcript_data
    /\ Len(_extract_words_with_timings(args.transcript_data).val) = 2
    /\ last.ret.total = 567

\* analyze_transcript returned the analyses of a transcript that has a text
TranscriptAnalysed ==
    /\ last.op = "analyze_transcript"
    /\ last.logged = ""
    /\ ~EmptyTranscript

\* The word entries of a transcription that has them
WordsOf(transcript_data) == transcript_data.results.channels[1].alternatives[1].words

\* Word k + 1 repeats word k: the same word but for its case, less than
\* 2.0 s after word k ended
Repeats(words, k) ==
    /\ Strings[words[k + 1].word].lower = Strings[words[k].word].lower
    /\ words[k + 1].start - words[k].end < 200

\* The maximal runs <<a, b>>, a < b, of words each repeating the one before
MaximalRuns(words) ==
    {r \in (1..Len(words)) \X (1..Len(words)) :
       /\ r[1] < r[2]
       /\ \A k \in r[1]..(r[2] - 1) : Repeats(words, k)
       /\ r[1] = 1 \/ ~Repeats(words, r[1] - 1)
       /\ r[2] = Len(words) \/ ~Repeats(words, r[2])}

\* The run that begins at word a
RunFrom(runs, a) == CHOOSE r \in runs : r[1] = a

\* sequences reports the runs in the order of their first words
ReportsRuns(sequences, words, runs, starts) ==
    /\ Len(sequences) = Cardinality(runs)
    /\ \A k \in 1..Len(sequences) :
          /\ sequences[k].word = Strings[words[starts[k]].word].lower
          /\ sequences[k].count = RunFrom(runs, starts[k])[2] - starts[k] + 1
          /\ sequences[k].start_time = words[starts[k]].start
          /\ sequences[k].end_time = words[RunFrom(runs, starts[k])[2]].end

\* 'go' three times, the repeats 0.5 s after the word before
ThreeGos ==
    <<TimedWord("go", 0, 50), TimedWord("go", 100, 150), TimedWord("go", 200, 250)>>

RECURSIVE WindowWords(_)
WindowWords(pace_segments) ==
    IF pace_segments = <<>> THEN 0
    ELSE Head(pace_segments).word_count + WindowWords(Tail(pace_segments))

\* Consecutive 10-second windows from the start of the first word
Anchored(pace_segments, words) ==
    \A k \in 1..Len(pace_segments) :
        /\ pace_segments[k].start_time = words[1].start + (k - 1) * 1000
        /\ pace_segments[k].end_time = pace_segments[k].start_time + 1000

\* C25: the pace analysis of a transcript of two or more words has
\* consecutive 10-second windows anchored at the start of the first word,
\* and every word is counted in exactly one of them, so that the word counts
\* of the windows sum to word_count.
C25_WindowsPartitionWords ==
    (TranscriptAnalysed /\ Len(WordsOf(args.transcript_data)) >= 2) =>
        /\ Anchored(last.ret.pace_analysis.pace_segments, WordsOf(args.transcript_data))
        /\ WindowWords(last.ret.pace_analysis.pace_segments) = last.ret.word_count

\* The entries of the filler lexicon that are phrases, word by word
FillerPhrases ==
    {<<"you", "know">>, <<"kind", "of">>, <<"sort", "of">>, <<"i", "mean">>,
     <<"you", "see">>}

\* The occurrences of lexicon entries in a word list: the positions of the
\* single-word fillers and the positions where a phrase starts
FillerOccurrences(words) ==
    Cardinality({i \in 1..Len(words) : Bare(words[i]) \in filler_words})
    + Cardinality({i \in 1..(Len(words) - 1) :
                     <<Bare(words[i]), Bare(words[i + 1])>> \in FillerPhrases})

RECURSIVE SumOfCounts(_, _)
SumOfCounts(breakdown, keys) ==
    IF keys = {} THEN 0
    ELSE breakdown[CHOOSE k \in keys : TRUE]
         + SumOfCounts(breakdown, keys \ {CHOOSE k \in keys : TRUE})

\* C26: the filler analysis counts every occurrence of every entry of the
\* filler lexicon, the phrases of two adjacent words ('you know', 'kind of')
\* included, and total_count equals the sum of the breakdown counts and the
\* number of instances recorded.
C26_FillerLexiconCounted ==
    TranscriptAnalysed =>
        /\ last.ret.filler_words.total_count
             = FillerOccurrences(WordsOf(args.transcript_data))
        /\ last.ret.filler_words.total_count
             = SumOfCounts(last.ret.filler_words.breakdown,
                            DOMAIN last.ret.filler_words.breakdown)
        /\ last.ret.filler_words.total_count = Len(last.ret.filler_words.instances)

---------------------------------------------------------------------------
(* Properties of the posture aggregator *)

\* The posture data holds two lists of samples with numeric fields
WellFormed(raw_data) ==
    /\ DOMAIN raw_data = {"posture", "eye_contact"}
    /\ \A key \in DOMAIN raw_data :
          /\ raw_data[key].t = "list"
          /\ \A i \in 1..Len(raw_data[key].items) :
                /\ DOMAIN raw_data[key].items[i] = {"timestamp", "score"}
                /\ raw_data[key].items[i].timestamp.t = "num"
                /\ raw_data[key].items[i].score.t = "num"

\* A stream of well-formed posture data has a sample with a positive score
HasPositive(raw_data, key) ==
    \E i \in 1..Len(raw_data[key].items) : raw_data[key].items[i].score.v > 0

\* The sum of the percentages of a breakdown, in tenths
BreakdownSum(breakdown) == SumOver([k \in DOMAIN breakdown |-> breakdown[k].v],
                                   DOMAIN breakdown)

\* The percentages sum to 100, each rounded to one decimal
SumsTo100(breakdown) == BreakdownSum(breakdown) \in 998..1002

\* C14: whenever a stream has at least one positive sample, the percentages
\* of its breakdown sum to 100 up to rounding, a second without a sample of
\* that kind counting in neither numerator nor denominator; the posture
\* samples (0,90), (0,10), (1,85) give bad 50, good 50, okay 0.
C14_BreakdownSumsTo100 ==
    (last.op = "process_posture_data" /\ WellFormed(args.raw_data)) =>
        /\ HasPositive(args.raw_data, "posture") =>
              SumsTo100(last.ret.summary.posture_breakdown)
        /\ HasPositive(args.raw_data, "eye_contact") =>
              SumsTo100(last.ret.summary.eye_contact_breakdown)
        /\ args.raw_data.posture =
              Samples(<<Sample(0, 900), Sample(0, 100), Sample(10, 850)>>) =>
              \/ HasPositive(args.raw_data, "eye_contact")
              \/ last.ret.summary.posture_breakdown =
                    [good_percentage |-> Num(500), okay_percentage |-> Num(0),
                     bad_percentage |-> Num(500)]

\* The samples of a stream whose score is not 0
RECURSIVE NonZeroSamples(_)
NonZeroSamples(items) ==
    IF items = <<>> THEN <<>>
    ELSE (IF Head(items).score.v = 0 THEN <<>> ELSE <<Head(items)>>)
         \o NonZeroSamples(Tail(items))

\* Well-formed posture data without its score-0 samples
WithoutZeroSamples(raw_data) ==
    [key \in DOMAIN raw_data |-> Samples(NonZeroSamples(raw_data[key].items))]

\* What C15 is about in a summary
Aggregates(summary) ==
    <<summary.average_posture_score, summary.average_eye_contact_score,
      summary.posture_breakdown, summary.eye_contact_breakdown,
      summary.total_recording_seconds>>

\* C15: a sample with score 0 is no sample: the averages, both breakdowns
\* and total_recording_seconds of the result are those of the same input
\* without its score-0 samples.
C15_ZeroSamplesAreNoSamples ==
    (/\ last.op = "process_posture_data"
     /\ WellFormed(args.raw_data)
     /\ HasPositive(args.raw_data, "posture") \/ HasPositive(args.raw_data, "eye_contact"))
    => Aggregates(last.ret.summary)
         = Aggregates(process_posture_data(WithoutZeroSamples(args.raw_data)).ret.summary)

\* The posture data holds no sample list with an entry, or is no mapping
NoDataAtAll(raw_data) ==
    \/ "t" \in DOMAIN raw_data
    \/ \A key \in {"posture", "eye_contact"} :
          \/ key \notin DOMAIN raw_data
          \/ raw_data[key].t = "none"
          \/ raw_data[key].items = <<>>

\* C16: with no data at all (both streams empty, or data that is no
\* mapping) and when processing fails, the result is the fixed default
\* analysis: averages 65 and 60, posture breakdown 40/45/15, eye-contact
\* breakdown 35/50/15, never an all-zero analysis.
C16_DefaultWhenNoData ==
    (/\ last.op = "process_posture_data"
     /\ NoDataAtAll(args.raw_data) \/ last.logged # "")
    => /\ last.raised = ""
       /\ last.ret.summary.average_posture_score = Num(650)
       /\ last.ret.summary.average_eye_contact_score = Num(600)
       /\ last.ret.summary.posture_breakdown =
             [good_percentage |-> Num(400), okay_percentage |-> Num(450),
              bad_percentage |-> Num(150)]
       /\ last.ret.summary.eye_contact_breakdown =
             [good_percentage |-> Num(350), moderate_percentage |-> Num(500),
              poor_percentage |-> Num(150)]

\* C16 witness: a score that is no number made the processing fail
C16_Witness ==
    /\ last.op = "process_posture_data"
    /\ last.logged = "TypeError"
    /\ ~NoDataAtAll(args.raw_data)
    /\ last.ret.summary.average_posture_score = Num(650)

=============================================================================
